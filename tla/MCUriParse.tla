---------------------------- MODULE MCUriParse ----------------------------
(* Texts for UriParse: URIs written from parts of given lengths, and all
   short texts. *)
EXTENDS UriParse, UriText

Char(c) == <<[c |-> c, n |-> 1]>>
Run(n) == IF n = 0 THEN <<>> ELSE <<[c |-> "a", n |-> n]>>

(* n characters, some of them separators that mean nothing where they stand. *)
User(n) == IF n < 3 THEN Run(n) ELSE Run(1) \o Char(":") \o Run(n - 2)
Inner(n) ==
  IF n < 5 THEN Run(n)
  ELSE Run(n - 4) \o Char("/") \o Char("/") \o Char(":") \o Char(";")

Optional(before, s, after) == IF s = <<>> THEN s ELSE before \o s \o after

(* scheme ":" ["//"] [user "@"] host [":" port] [lead path ["?" query] ["#" fragment]] *)
Written(u) ==
  Run(u.scheme) \o Char(":") \o (IF u.slashes THEN Char("/") \o Char("/") ELSE <<>>)
  \o Optional(<<>>, User(u.user), Char("@")) \o Run(u.host)
  \o Optional(Char(":"), Run(u.port), <<>>)
  \o Optional(Char(u.lead), Inner(u.path), <<>>)
  \o Optional(Char("?"), Inner(u.query), <<>>)
  \o Optional(Char("#"), Inner(u.fragment), <<>>)

(* Where its parts end, if its first token is the one of that number. *)
Marks(u, first) ==
  LET Ends(at, part) == IF part = <<>> THEN at ELSE at + 1 + Len(part)
      name == first + IF u.slashes THEN 4 ELSE 2
      at == Ends(name - 1, User(u.user))
      port == Ends(at + 2, Run(u.port))
      path == Ends(port, Inner(u.path))
      query == Ends(path, Inner(u.query))
  IN  [first |-> first, scheme |-> first + 1, name |-> name, at |-> at,
       host |-> at + 2, port |-> port, path |-> path, query |-> query,
       last |-> Ends(query, Inner(u.fragment))]

(* Lengths at both ends of what the size fields hold.  A "sip" URI is the one
   without slashes: it needs a user. *)
Uri(slashes, lead) ==
  {u \in [slashes : {slashes}, lead : {lead}, scheme : {1, 7}, user : {0, 1, 255},
          host : {1, 255}, port : {0, 1, 7}, path : {0, 1, 4095},
          query : {0, 1, 16383}, fragment : {0, 1, 1023}] :
     /\ slashes \/ u.user > 0
     /\ u.path = 0 => u.query = 0 /\ u.fragment = 0}
Singles == Uri(TRUE, "/") \cup Uri(FALSE, ";")
Few == {u \in Singles :
          /\ u.scheme = 7 /\ u.user # 1 /\ u.host = 255 /\ u.port # 1
          /\ u.path # 1 /\ u.query # 1 /\ u.fragment # 1}

Blank == Char(" ")
Lists == {<<u>> : u \in Singles} \cup (Few \X Few)
Text(l) == FlattenSeq([k \in DOMAIN l |-> Blank \o Written(l[k])]) \o Blank

(* A list of URIs as a text, with its offsets and its marks. *)
Listed(l) ==
  LET tokens == Text(l)
      offset[k \in 1 .. Len(tokens) + 1] ==
        IF k = 1 THEN 0 ELSE offset[k - 1] + tokens[k - 1].n
      marks[k \in DOMAIN l] ==
        Marks(l[k], IF k = 1 THEN 2 ELSE marks[k - 1].last + 1)
  IN  [offset |-> offset, marks |-> marks,
       text |-> [tokens |-> tokens,
                 means |-> [k \in DOMAIN l |-> Meaning(offset, marks[k])]]]
ListedTexts == {Listed(l).text : l \in Lists}

(* They are texts as the theorems about the parser speak of. *)
ASSUME ListedTextsAreWritten ==
  \A l \in Lists : LET t == Listed(l) IN IsWritten(t.text, t.offset, t.marks)

(* Any short text, and any short end of a URI. *)
ShortTexts ==
  LET token == {[c |-> c, n |-> 1] : c \in Kind} \cup {[c |-> "a", n |-> 300]}
      scheme == Run(2) \o Char(":")
      user == Run(1) \o Char("@")
      ends == {h \o s : h \in {scheme, scheme \o Char("/") \o Char("/"), scheme \o user},
                        s \in SeqOf(token \ Range(Blank), 4)}
  IN  {[tokens |-> t, means |-> <<>>] : t \in SeqOf(token, 3) \cup ends}

ListedAndShort == ListedTexts \cup ShortTexts
=============================================================================
