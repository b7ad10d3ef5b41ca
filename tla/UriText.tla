------------------------------ MODULE UriText ------------------------------
(***************************************************************************)
(* What a text of URIs is, whoever reads it: where the parts of each URI   *)
(* stand, and what a record of them should say.  Nothing here looks at the *)
(* parser; UriParse compares what it stores with Meaning.                  *)
(*                                                                         *)
(*   scheme ":" ["//"] [user "@"] host [":" port]                          *)
(*     [("/" | ";") path ["?" query] ["#" fragment]]                       *)
(*                                                                         *)
(* A URI without "//" has a user.  No part is empty.                       *)
(***************************************************************************)
EXTENDS Integers, Sequences

(* A URI lies in a text between two tokens, and so do its parts: each mark is
   the token behind the part it is named for, but first is the first token of
   all and name the one behind ":" and "//".  A part that is missing ends where
   the part before it does. *)
Mark == [first : Nat, scheme : Nat, name : Nat, at : Nat, host : Nat, port : Nat,
         path : Nat, query : Nat, last : Nat]

(* The tokens from one up to another are of these kinds. *)
Only(tokens, from, to, kinds) == \A k \in from .. to - 1 : tokens[k].c \in kinds

Name == {"a"}
Inside == {"a", "/", ":", ";"}

IsUri(tokens, m) ==
  /\ m.first < m.scheme /\ m.scheme < m.name /\ m.name <= m.at + 1
  /\ m.at + 1 < m.host /\ m.host <= m.port /\ m.port <= m.path
  /\ m.path <= m.query /\ m.query <= m.last /\ m.last <= Len(tokens) + 1
  /\ Only(tokens, m.first, m.scheme, Name)
  /\ tokens[m.scheme].c = ":"
  /\ \/ m.name = m.scheme + 1 /\ m.at >= m.name
     \/ m.name = m.scheme + 3 /\ Only(tokens, m.scheme + 1, m.name, {"/"})
  /\ m.at >= m.name =>
       /\ Only(tokens, m.name, m.at, {"a", ":"})
       /\ \A j, k \in m.name .. m.at - 1 :
            tokens[j].c = ":" /\ tokens[k].c = ":" => j = k
       /\ tokens[m.at].c = "@"
  /\ Only(tokens, m.at + 1, m.host, Name)
  /\ m.port > m.host =>
       tokens[m.host].c = ":" /\ Only(tokens, m.host + 1, m.port, Name)
  /\ m.path > m.port =>
       /\ tokens[m.port].c \in {"/", ";"} /\ tokens[m.port + 1].c # "/"
       /\ Only(tokens, m.port + 1, m.path, Inside)
  /\ m.query > m.path =>
       tokens[m.path].c = "?" /\ Only(tokens, m.path + 1, m.query, Inside)
  /\ m.last > m.query =>
       tokens[m.query].c = "#" /\ Only(tokens, m.query + 1, m.last, Inside)
  /\ m.path = m.port => m.last = m.port

(* What is recorded of it, with the offset of each token. *)
Meaning(offset, m) ==
  LET Begin(k) == offset[k] - offset[m.first]
      Size(from, to) == offset[to] - offset[from]
  IN  [scheme_size   |-> Begin(m.scheme),
       userinfo      |-> IF m.at >= m.name THEN Begin(m.name) ELSE 0,
       userinfo_size |-> IF m.at >= m.name THEN Size(m.name, m.at) ELSE 0,
       host          |-> Begin(m.at + 1),
       host_size     |-> Size(m.at + 1, m.host),
       port          |-> IF m.port > m.host THEN Begin(m.host + 1) ELSE 0,
       port_size     |-> IF m.port > m.host THEN Size(m.host + 1, m.port) ELSE 0,
       path          |-> Begin(IF m.path > m.port THEN m.port + 1 ELSE m.port),
       path_size     |-> IF m.path > m.port THEN Size(m.port + 1, m.path) ELSE 0,
       query         |-> IF m.query > m.path THEN Begin(m.path + 1) ELSE 0,
       query_size    |-> IF m.query > m.path THEN Size(m.path + 1, m.query) ELSE 0,
       fragment      |-> IF m.last > m.query THEN Begin(m.query + 1) ELSE 0,
       fragment_size |-> IF m.last > m.query THEN Size(m.query + 1, m.last) ELSE 0]

(* No part is empty, and none is longer than the record has room for. *)
Held(size, limit) == size \in Nat /\ size > 0 /\ size < limit

Fits(u, m) ==
  /\ Held(u.scheme_size, 8) /\ Held(u.host_size, 256)
  /\ m.at >= m.name => Held(u.userinfo_size, 256)
  /\ m.port > m.host => Held(u.port_size, 8)
  /\ m.path > m.port => Held(u.path_size, 4096)
  /\ m.query > m.path => Held(u.query_size, 16384)
  /\ m.last > m.query => Held(u.fragment_size, 1024)

(* The tokens between the k-th URI and the next: there is one at least. *)
GapBegin(marks, k) == IF k = 0 THEN 1 ELSE marks[k].last
GapEnd(tokens, marks, k) ==
  IF k = Len(marks) THEN Len(tokens) + 1 ELSE marks[k + 1].first

(* A text made of URIs, with these offsets and these marks. *)
IsWritten(text, offset, marks) ==
  LET tokens == text.tokens IN
  /\ offset \in [1 .. Len(tokens) + 1 -> Nat]
  /\ \A k \in DOMAIN tokens : offset[k + 1] = offset[k] + tokens[k].n
  /\ marks \in Seq(Mark) /\ Len(marks) = Len(text.means)
  /\ \A k \in DOMAIN marks :
       /\ IsUri(tokens, marks[k])
       /\ Fits(Meaning(offset, marks[k]), marks[k])
       /\ text.means[k] = Meaning(offset, marks[k])
  /\ \A k \in 0 .. Len(marks) :
       /\ k \in 1 .. Len(marks) - 1 => GapBegin(marks, k) < GapEnd(tokens, marks, k)
       /\ GapBegin(marks, k) >= 1 /\ GapBegin(marks, k) <= GapEnd(tokens, marks, k)
       /\ Only(tokens, GapBegin(marks, k), GapEnd(tokens, marks, k), {" "})

WrittenUris(text) == \E offset, marks : IsWritten(text, offset, marks)
=============================================================================
