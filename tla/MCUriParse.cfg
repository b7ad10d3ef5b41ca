\* URIs written from parts, alone and in lists, and all short texts.
SPECIFICATION Spec
CONSTANT Texts <- ListedAndShort
INVARIANTS
  ParsedAsWritten
  EveryUriParsed
  HostAndPortInText
\* The list ends.
CHECK_DEADLOCK FALSE
