----------------------------- MODULE UriParse -----------------------------
(***************************************************************************)
(* ain_proto_parse_uri (core/ain_protocol.c): one pass over a text that    *)
(* records, in bit fields, where each part of the next URI begins and how  *)
(* long it is.  The loop that calls it until it fails splits a text into   *)
(* its URIs.  Offsets are counted from the first character of the scheme.  *)
(*                                                                         *)
(* Of a character only what the parser tells apart is kept.  A run of      *)
(* characters it does not tell apart is one token: after the first of them *)
(* the others change nothing, as long as they begin below 2^11.            *)
(***************************************************************************)
EXTENDS Integers, Sequences, SequencesExt, FiniteSetsExt

CONSTANT Texts   \* texts, each a sequence of tokens with the URIs it is made of

Kind == {":", "/", "?", "#", "@", ";", "a", " "}

ASSUME TextsAssumption ==
  \A t \in Texts :
    /\ t.tokens \in Seq([c : Kind, n : Nat \ {0}])
    /\ \A k \in DOMAIN t.tokens : t.tokens[k].n = 1 \/ t.tokens[k].c = "a"

VARIABLES
  text, pos,    (* the text, and the token *buf points to                  *)
  off,          (* *buf - uri->scheme                                      *)
  uri,          (* ain_uri_t                                               *)
  pc,           (* where the parser is, or what it returned                *)
  calls         (* calls that returned AIN_OK                              *)

vars == <<text, pos, off, uri, pc, calls>>

(* The widths of the bit fields of _ain_uri_t; the mutant gives the path the
   offset it would need if the port were not counted. *)
WidthPathShort ==
  [scheme_size |-> 3, userinfo |-> 4, userinfo_size |-> 8, host |-> 9,
   host_size |-> 8, port |-> 10, port_size |-> 3, path |-> 9, path_size |-> 12,
   query |-> 13, query_size |-> 14, fragment |-> 15, fragment_size |-> 10]
Width ==
  [scheme_size |-> 3, userinfo |-> 4, userinfo_size |-> 8, host |-> 9,
   host_size |-> 8, port |-> 10, port_size |-> 3, path |-> 11, path_size |-> 12,
   query |-> 13, query_size |-> 14, fragment |-> 15, fragment_size |-> 10]

Field == DOMAIN Width
Zero == [f \in Field |-> 0]

(* The fields that new sets, and those of rest that it does not. *)
And(new, rest) ==
  [f \in DOMAIN new \cup DOMAIN rest |-> IF f \in DOMAIN new THEN new[f] ELSE rest[f]]

(* new sets fields of u, each cut to its width. *)
Store(u, new) ==
  [f \in Field |-> IF f \in DOMAIN new THEN new[f] % 2^Width[f] ELSE u[f]]

Init ==
  /\ text \in Texts
  /\ pos = 1 /\ off = 0 /\ uri = Zero /\ pc = "skip" /\ calls = 0

AtEnd == pos > Len(text.tokens)
Is(c) == ~AtEnd /\ text.tokens[pos].c = c

-----------------------------------------------------------------------------
(* memset, the loop over leading spaces, and the first return *)

SkipSpace ==
  /\ pc = "skip" /\ Is(" ")
  /\ pos' = pos + 1
  /\ UNCHANGED <<text, off, uri, pc, calls>>

NothingLeft ==
  /\ pc = "skip" /\ AtEnd
  /\ pc' = "error"
  /\ UNCHANGED <<text, pos, off, uri, calls>>

Begin ==
  /\ pc = "skip" /\ ~AtEnd /\ ~Is(" ")
  /\ pc' = "scan"
  /\ UNCHANGED <<text, pos, off, uri, calls>>

-----------------------------------------------------------------------------
(* The loop over the characters of the URI: its branches in their order. *)

(* The buffer is a string: what follows its last character, read here although
   it is no longer counted in size, is the zero that ends it. *)
SlashFollows == pos < Len(text.tokens) /\ text.tokens[pos + 1].c = "/"

Branch ==
  IF Is(":") /\ uri.scheme_size = 0 THEN "scheme"
  ELSE IF Is(":") /\ uri.host # 0 /\ uri.port_size = 0 /\ uri.host_size = 0
    THEN "host end"
  ELSE IF Is("/") /\ uri.path = 0 /\ SlashFollows THEN "authority"
  ELSE IF Is("@") THEN "user end"
  ELSE IF Is("?") THEN "path end"
  ELSE IF Is("#") THEN "query end"
  ELSE IF uri.scheme_size # 0 /\ uri.path = 0 /\ uri.host = 0 THEN "opaque"
  ELSE IF uri.path = 0 /\ uri.host # 0 /\ \E c \in {"/", ":", ";"} : Is(c)
    THEN "path"
  ELSE "none"

Scan(branch, new, tokens) ==
  /\ pc = "scan" /\ ~AtEnd /\ ~Is(" ")
  /\ Branch = branch
  /\ uri' = Store(uri, new)
  /\ pos' = pos + tokens
  /\ off' = off + (IF tokens = 1 THEN text.tokens[pos].n ELSE tokens)
  /\ UNCHANGED <<text, pc, calls>>

Unchanged == [f \in {} |-> 0]

SchemeEnd == Scan("scheme", [scheme_size |-> off], 1)

HostEnd ==
  Scan("host end", [host_size |-> off - uri.host, port |-> off + 1], 1)

Authority == Scan("authority", [host |-> off + 2], 2)

(* uri->userinfo, which keeps four bits of what is stored into it. *)
UserOffset(start) == start % 2^Width.userinfo

(* Mutant of UserEnd: what was taken for a host and a port is kept. *)
UserEndNoReset ==
  IF uri.host # 0
  THEN Scan("user end", [userinfo |-> uri.host,
                         userinfo_size |-> off - UserOffset(uri.host),
                         host |-> off + 1], 1)
  ELSE IF uri.path # 0
  THEN Scan("user end", [userinfo |-> uri.path,
                         userinfo_size |-> off - UserOffset(uri.path),
                         path |-> 0, host |-> off + 1, host_size |-> 0], 1)
  ELSE Scan("user end", Unchanged, 1)

(* What was taken for host and port, or for a path, was the user. *)
UserEnd ==
  \/ /\ uri.host # 0
     /\ Scan("user end",
             [userinfo |-> uri.host, userinfo_size |-> off - UserOffset(uri.host),
              host |-> off + 1, host_size |-> 0, port |-> 0, port_size |-> 0], 1)
  \/ /\ uri.host = 0 /\ uri.path # 0
     /\ Scan("user end",
             [userinfo |-> uri.path, userinfo_size |-> off - UserOffset(uri.path),
              path |-> 0, host |-> off + 1, host_size |-> 0], 1)
  \/ /\ uri.host = 0 /\ uri.path = 0
     /\ Scan("user end", Unchanged, 1)

(* if (!uri->path) uri->path = off; path_size = off - path *)
PathClosed ==
  IF uri.path = 0 THEN [path |-> off, path_size |-> off - (off % 2^Width.path)]
  ELSE [path_size |-> off - uri.path]

PathEnd == Scan("path end", And([query |-> off + 1], PathClosed), 1)

QueryEnd ==
  Scan("query end",
       And([fragment |-> off + 1],
           IF uri.query # 0 THEN [query_size |-> off - uri.query] ELSE PathClosed),
       1)

(* A path with no authority before it. *)
OpaquePath ==
  Scan("opaque",
       And([path |-> off],
           IF uri.port # 0 THEN [port_size |-> off - uri.port] ELSE Unchanged), 1)

HostOrPort ==
  IF uri.port # 0 THEN [port_size |-> off - uri.port]
  ELSE [host_size |-> off - uri.host]

Path == Scan("path", And([path |-> off + 1], HostOrPort), 1)

NoEffect == Scan("none", Unchanged, 1)

-----------------------------------------------------------------------------
(* After the loop *)

(* Mutant of Closed: with no path written, no path is set. *)
ClosedNoPath ==
  IF uri.path = 0 /\ uri.host # 0 THEN Store(uri, HostOrPort) ELSE uri

Closed ==
  IF uri.path = 0 /\ uri.host # 0
  THEN Store(uri, And([path |-> off], HostOrPort)) ELSE uri

(* The first of these parts that began and has no size yet is the last. *)
Tails == <<<<"path", "path_size">>, <<"query", "query_size">>,
           <<"fragment", "fragment_size">>>>
Open == {k \in DOMAIN Tails : Closed[Tails[k][1]] # 0 /\ Closed[Tails[k][2]] = 0}

Return ==
  /\ pc = "scan" /\ (AtEnd \/ Is(" "))
  /\ LET k == Min(Open) IN
     IF Open = {} THEN pc' = "error" /\ uri' = Closed /\ calls' = calls
     ELSE /\ pc' = "ok" /\ calls' = calls + 1
          /\ uri' = Store(Closed, [f \in {Tails[k][2]} |-> off - Closed[Tails[k][1]]])
  /\ UNCHANGED <<text, pos, off>>

(* while (AIN_OK == ain_proto_parse_uri(...)) *)
CallAgain ==
  /\ pc = "ok"
  /\ pc' = "skip" /\ uri' = Zero /\ off' = 0
  /\ UNCHANGED <<text, pos, calls>>

Next ==
  \/ SkipSpace \/ NothingLeft \/ Begin
  \/ SchemeEnd \/ HostEnd \/ Authority \/ UserEnd \/ PathEnd \/ QueryEnd
  \/ OpaquePath \/ Path \/ NoEffect
  \/ Return \/ CallAgain

Spec == Init /\ [][Next]_vars

-----------------------------------------------------------------------------
(* The tokens of the URI taken so far, and the "//" among them. *)
Word == {k \in 1 .. pos - 1 : \A j \in k .. pos - 1 : text.tokens[j].c # " "}
Slashes == {k \in Word : /\ k + 1 \in Word
                         /\ text.tokens[k].c = "/" /\ text.tokens[k + 1].c = "/"}

(* There is one "//" at most, and it comes before the user, if there is one. *)
AuthorityFirst ==
  \A k \in Slashes : /\ Slashes = {k}
                     /\ \A j \in Word : text.tokens[j].c = "@" => k < j

(* Where the server writes and reads: ain_inet_pton puts a zero behind the
   host while it converts it, and ain_inet_setport reads the port.  However a
   URI whose "//" comes first is written and however its lengths are cut, both
   lie between the scheme and the end of the URI.  (A "//" after a host moves
   the host but keeps its length: in "a://:://" and in "a:b@c://" the host is
   one character beyond the end.  So is the path in "a:/#@".) *)
HostAndPortInText ==
  pc = "ok" /\ AuthorityFirst => /\ uri.host + uri.host_size <= off
                                 /\ uri.port + uri.port_size <= off

(* Part by part an accepted URI is what was written, up to the longest parts
   the size fields can hold: the offsets, each a bit wider than the widest
   field before it ("next_offset = 1 + max(prev_offset, prev_size)"), never
   run over. *)
ParsedAsWritten ==
  pc = "ok" /\ calls <= Len(text.means) => uri = text.means[calls]

(* The loop over a list of URIs does not end before the list does. *)
EveryUriParsed == pc = "error" => calls >= Len(text.means)
=============================================================================
