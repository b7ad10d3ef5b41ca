--------------------------- MODULE UriParseProofs ---------------------------
(***************************************************************************)
(* What the parser records of the host and the port of a URI whose "//"    *)
(* comes first lies inside it: for every text, however long its parts are  *)
(* and although every offset and length is cut to the width of its field.  *)
(* Of a list of well-formed URIs whose parts fit their fields it records   *)
(* what each of them means, and it stops at the end of the list.           *)
(***************************************************************************)
EXTENDS UriParse, UriText, TLAPS

Token == [c : Kind, n : Nat \ {0}]

TypeInv ==
  /\ text \in Texts /\ pos \in 1 .. Len(text.tokens) + 1 /\ off \in Nat
  /\ uri \in [Field -> Nat]
  /\ pc \in {"skip", "scan", "ok", "error"}
  /\ pc = "skip" => off = 0 /\ uri = Zero

(* A host begins behind a "//" or a "@", and has a length only then. *)
HostMarked ==
  uri.host # 0 \/ uri.host_size # 0 =>
    Slashes # {} \/ \E k \in Word : text.tokens[k].c = "@"

HostAndPortEnd ==
  /\ uri.host + uri.host_size <= off
  /\ uri.port + uri.port_size <= off

UriInv ==
  /\ TypeInv
  /\ pc \in {"scan", "ok"} => HostMarked /\ (AuthorityFirst => HostAndPortEnd)

-----------------------------------------------------------------------------
(* The bit fields. *)

(* A number cut to the width of a field is not negative, and no greater than it
   was unless that was negative. *)
LEMMA CutToWidth ==
  ASSUME NEW f \in Field, NEW n \in Int
  PROVE  n % 2^Width[f] \in Nat /\ (n >= 0 => n % 2^Width[f] <= n)
<1>1. ASSUME NEW m \in Nat \ {0} PROVE n % m \in Nat /\ (n >= 0 => n % m <= n)
  OBVIOUS
<1>2. PICK w : w = Width[f]
  OBVIOUS
<1>3. w \in {3, 4, 8, 9, 10, 11, 12, 13, 14, 15}
  BY <1>2 DEF Field, Width
<1>4. /\ 2^3 \in Nat \ {0} /\ 2^4 \in Nat \ {0} /\ 2^8 \in Nat \ {0}
      /\ 2^9 \in Nat \ {0} /\ 2^10 \in Nat \ {0} /\ 2^11 \in Nat \ {0}
      /\ 2^12 \in Nat \ {0} /\ 2^13 \in Nat \ {0} /\ 2^14 \in Nat \ {0}
      /\ 2^15 \in Nat \ {0}
  BY SMT
<1>5. 2^w \in Nat \ {0}
  BY <1>3, <1>4, Zenon
<1> QED
  BY <1>1, <1>2, <1>5

(* What a store into the bit fields leaves in them. *)
LEMMA Stored ==
  ASSUME NEW u \in [Field -> Nat], NEW new,
         \A f \in DOMAIN new \cap Field : new[f] \in Int
  PROVE  /\ Store(u, new) \in [Field -> Nat]
         /\ \A f \in Field \ DOMAIN new : Store(u, new)[f] = u[f]
         /\ \A f \in DOMAIN new \cap Field : new[f] >= 0 => Store(u, new)[f] <= new[f]
<1>1. ASSUME NEW f \in Field
      PROVE  Store(u, new)[f] = IF f \in DOMAIN new THEN new[f] % 2^Width[f] ELSE u[f]
  BY DEF Store
<1>2. ASSUME NEW f \in DOMAIN new \cap Field
      PROVE  Store(u, new)[f] \in Nat /\ (new[f] >= 0 => Store(u, new)[f] <= new[f])
  BY <1>1, <1>2, CutToWidth
<1>3. Store(u, new) = [f \in Field |-> Store(u, new)[f]]
  BY DEF Store
<1>4. \A f \in Field : Store(u, new)[f] \in Nat
  BY <1>1, <1>2
<1> QED
  BY <1>1, <1>2, <1>3, <1>4

(* Fields that are given together are given numbers if each is. *)
LEMMA AndInt ==
  ASSUME NEW new, NEW rest,
         \A f \in DOMAIN new : new[f] \in Int, \A f \in DOMAIN rest : rest[f] \in Int
  PROVE  \A f \in DOMAIN And(new, rest) : And(new, rest)[f] \in Int
<1> SUFFICES ASSUME NEW f \in DOMAIN new \cup DOMAIN rest
             PROVE  (IF f \in DOMAIN new THEN new[f] ELSE rest[f]) \in Int
  BY DEF And
<1> QED
  OBVIOUS

-----------------------------------------------------------------------------
(* The scan. *)

(* Each branch of the scan takes one token, or the two of a "//"; what was taken
   stays taken. *)
LEMMA ScanMoves ==
  ASSUME TypeInv, NEW branch, NEW new, NEW tokens \in {1, 2},
         Scan(branch, new, tokens),
         tokens = 2 => Is("/") /\ SlashFollows,
         \A f \in DOMAIN new \cap Field : new[f] \in Int
  PROVE  /\ TypeInv' /\ pc = "scan" /\ pc' = "scan" /\ text' = text
         /\ off' >= off + tokens
         /\ uri' = Store(uri, new)
         /\ Word \subseteq Word' /\ Slashes \subseteq Slashes' /\ pos \in Word'
         /\ pos \notin Word /\ (\A k \in Word : k < pos)
         /\ tokens = 2 => pos \in Slashes'
         /\ AuthorityFirst' => AuthorityFirst
<1>1. /\ text \in Texts /\ pos \in 1 .. Len(text.tokens) + 1 /\ off \in Nat
      /\ uri \in [Field -> Nat]
  BY DEF TypeInv
<1>2. PICK t : t = text.tokens
  OBVIOUS
<1>3. PICK l \in Nat : l = Len(t)
  BY <1>1, <1>2, TextsAssumption
<1>4. t \in [1 .. l -> Token]
  <2>1. t \in Seq(Token)
    BY <1>1, <1>2, TextsAssumption DEF Token
  <2> QED
    BY <1>3, <2>1
<1>5. PICK p \in Nat : p = pos
  BY <1>1, <1>2, <1>3
<1>6. p \in 1 .. l /\ t[p] \in Token /\ t[p].n \in Nat \ {0} /\ t[p].c # " "
  <2>1. p \in 1 .. l + 1
    BY <1>1, <1>2, <1>3, <1>5
  <2>2a. ~(p > l)
    BY <1>2, <1>3, <1>5 DEF Scan, AtEnd
  <2>2. t[p].c # " "
    BY <1>2, <1>3, <1>5 DEF Scan, Is
  <2>3. p \in 1 .. l
    BY ONLY <2>1, <2>2a, <1>3, <1>5
  <2>4. t[p] \in Token
    BY <1>4, <2>3
  <2> QED
    BY <2>2, <2>3, <2>4 DEF Token
<1>7. tokens = 2 => p + 1 \in 1 .. l /\ t[p].c = "/" /\ t[p + 1].c = "/"
  <2>1. tokens = 2 => p < l /\ t[p].c = "/" /\ t[p + 1].c = "/"
    BY <1>2, <1>3, <1>5 DEF SlashFollows, Is
  <2>2. p < l => p + 1 \in 1 .. l
    BY ONLY <1>3, <1>5
  <2> QED
    BY <2>1, <2>2
<1>8. /\ pc = "scan" /\ uri' = Store(uri, new) /\ pos' = p + tokens
      /\ off' = off + (IF tokens = 1 THEN t[p].n ELSE tokens)
      /\ UNCHANGED <<text, pc>>
  BY <1>2, <1>5 DEF Scan
<1>9. p + tokens \in 1 .. l + 1 /\ off' \in Nat /\ off' >= off + tokens
  <2>1. tokens = 1 \/ tokens = 2
    OBVIOUS
  <2>2. off' = off + (IF tokens = 1 THEN t[p].n ELSE tokens)
    BY <1>8
  <2>3. t[p].n \in Nat \ {0} /\ off \in Nat
    BY <1>1, <1>6
  <2>4. p \in 1 .. l /\ (tokens = 2 => p + 1 \in 1 .. l)
    BY <1>6, <1>7
  <2>5. p + tokens \in 1 .. l + 1
    BY ONLY <2>1, <2>4, <1>3, <1>5
  <2> QED
    BY ONLY <2>1, <2>2, <2>3, <2>5
<1>10. TypeInv'
  <2>1. uri' \in [Field -> Nat]
    BY <1>1, <1>8, Stored
  <2> QED
    BY <1>1, <1>2, <1>3, <1>8, <1>9, <2>1 DEF TypeInv
<1>11. /\ Word \subseteq Word' /\ p \in Word' /\ p \notin Word
       /\ \A k \in Word : k < p
       /\ tokens = 2 => p + 1 \in Word'
  <2>0. tokens = 1 \/ tokens = 2
    OBVIOUS
  <2>1. /\ Word = {k \in 1 .. p - 1 : \A j \in k .. p - 1 : t[j].c # " "}
        /\ Word' = {k \in 1 .. (p + tokens) - 1 : \A j \in k .. (p + tokens) - 1 : t[j].c # " "}
    BY <1>2, <1>5, <1>8 DEF Word
  <2>2. \A j \in p .. (p + tokens) - 1 : t[j].c # " "
    <3>1. \A j \in p .. (p + tokens) - 1 : j = p \/ (tokens = 2 /\ j = p + 1)
      BY ONLY <1>5, <2>0
    <3> QED
      BY <1>6, <1>7, <3>1
  <2>3. ASSUME NEW k \in Word PROVE k \in Word' /\ k < p
    <3>0. k \in 1 .. p - 1
      BY <2>1
    <3>1. \A j \in k .. p - 1 : t[j].c # " "
      BY <2>1
    <3>2. k \in 1 .. (p + tokens) - 1 /\ k < p
      BY ONLY <1>5, <2>0, <3>0
    <3>3. \A j \in k .. (p + tokens) - 1 : j \in k .. p - 1 \/ j \in p .. (p + tokens) - 1
      BY ONLY <1>5, <2>0, <3>0
    <3> QED
      BY <2>1, <2>2, <3>0, <3>1, <3>2, <3>3
  <2>4a. p \in 1 .. l
    BY <1>6
  <2>4. ASSUME NEW k \in p .. (p + tokens) - 1 PROVE k \in Word'
    <3>0. k \in p .. (p + tokens) - 1
      OBVIOUS
    <3>1. k \in 1 .. (p + tokens) - 1 /\ \A j \in k .. (p + tokens) - 1 : j \in p .. (p + tokens) - 1
      BY ONLY <1>5, <2>0, <3>0, <2>4a
    <3> QED
      BY <2>1, <2>2, <3>1
  <2>5. p \in p .. (p + tokens) - 1 /\ (tokens = 2 => p + 1 \in p .. (p + tokens) - 1)
    BY ONLY <1>5, <2>0
  <2>6. p \notin Word
    BY ONLY <1>5, <2>3
  <2> QED
    BY <2>3, <2>4, <2>5, <2>6
<1>12. Slashes \subseteq Slashes' /\ (tokens = 2 => pos \in Slashes')
  BY <1>2, <1>5, <1>7, <1>8, <1>11 DEF Slashes
<1>13. AuthorityFirst' => AuthorityFirst
  <2> SUFFICES ASSUME AuthorityFirst', NEW k \in Slashes
               PROVE  Slashes = {k} /\ \A j \in Word : text.tokens[j].c = "@" => k < j
    BY DEF AuthorityFirst
  <2>1. Slashes' = {k} /\ \A j \in Word' : text.tokens[j].c = "@" => k < j
    BY <1>8, <1>12 DEF AuthorityFirst
  <2> QED
    BY <1>11, <1>12, <2>1
<1> QED
  BY <1>5, <1>8, <1>9, <1>10, <1>11, <1>12, <1>13

(* The same of a branch that takes one token, with what it leaves in uri. *)
LEMMA ScanOne ==
  ASSUME UriInv, NEW branch, NEW new, Scan(branch, new, 1),
         \A f \in DOMAIN new \cap Field : new[f] \in Int
  PROVE  /\ TypeInv' /\ pc = "scan" /\ pc' = "scan" /\ text' = text
         /\ off \in Nat /\ off' \in Nat /\ off' >= off + 1
         /\ Word \subseteq Word' /\ Slashes \subseteq Slashes' /\ pos \in Word'
         /\ AuthorityFirst' => AuthorityFirst
         /\ \A f \in Field : uri[f] \in Nat /\ uri'[f] \in Nat
         /\ \A f \in Field \ DOMAIN new : uri'[f] = uri[f]
         /\ \A f \in DOMAIN new \cap Field : new[f] >= 0 => uri'[f] <= new[f]
<1>1. TypeInv
  BY DEF UriInv
<1>2. /\ TypeInv' /\ pc = "scan" /\ pc' = "scan" /\ text' = text
      /\ off' >= off + 1
      /\ uri' = Store(uri, new)
      /\ Word \subseteq Word' /\ Slashes \subseteq Slashes' /\ pos \in Word'
      /\ AuthorityFirst' => AuthorityFirst
  <2>1. 1 \in {1, 2} /\ (1 = 2 => Is("/") /\ SlashFollows)
    OBVIOUS
  <2> QED
    BY <1>1, <2>1, ScanMoves
<1>3. uri \in [Field -> Nat] /\ uri' \in [Field -> Nat] /\ off \in Nat /\ off' \in Nat
  BY <1>1, <1>2 DEF TypeInv
<1> QED
  BY <1>2, <1>3, Stored

(* A branch that leaves the host and the port alone. *)
LEMMA ScanElsewhere ==
  ASSUME UriInv, NEW branch, NEW new, Scan(branch, new, 1),
         \A f \in DOMAIN new \cap Field : new[f] \in Int,
         DOMAIN new \cap {"host", "host_size", "port", "port_size"} = {}
  PROVE  UriInv'
<1>1. /\ TypeInv' /\ pc = "scan" /\ pc' = "scan" /\ text' = text
      /\ off \in Nat /\ off' \in Nat /\ off' >= off + 1
      /\ Word \subseteq Word' /\ Slashes \subseteq Slashes'
      /\ AuthorityFirst' => AuthorityFirst
      /\ \A f \in Field : uri[f] \in Nat /\ uri'[f] \in Nat
      /\ \A f \in Field \ DOMAIN new : uri'[f] = uri[f]
  BY ScanOne
<1>2. {"host", "host_size", "port", "port_size"} \subseteq Field \ DOMAIN new
  BY DEF Field, Width
<1>3. /\ uri'.host = uri.host /\ uri'.host_size = uri.host_size
      /\ uri'.port = uri.port /\ uri'.port_size = uri.port_size
  BY <1>1, <1>2
<1>4. HostMarked'
  BY <1>1, <1>3 DEF HostMarked, UriInv
<1>5. AuthorityFirst' => HostAndPortEnd'
  <2>1. /\ uri.host \in Nat /\ uri.host_size \in Nat /\ uri.port \in Nat
        /\ uri.port_size \in Nat
    BY <1>1, <1>2
  <2> QED
    BY <1>1, <1>3, <2>1 DEF UriInv, HostAndPortEnd
<1> QED
  BY <1>1, <1>4, <1>5 DEF UriInv

(* The ":" behind the host ends it and begins the port. *)
LEMMA HostEndKeeps ==
  ASSUME UriInv, HostEnd
  PROVE  UriInv'
<1>1. PICK new : new = [host_size |-> off - uri.host, port |-> off + 1]
  OBVIOUS
<1>2. off \in Nat /\ uri.host \in Nat
  BY DEF UriInv, TypeInv, Field, Width
<1>3. /\ DOMAIN new = {"host_size", "port"}
      /\ new["host_size"] = off - uri.host /\ new["port"] = off + 1
      /\ new["host_size"] \in Int /\ new["port"] \in Nat
  BY <1>1, <1>2
<1>4. Scan("host end", new, 1)
  BY <1>1 DEF HostEnd
<1>5. /\ TypeInv' /\ pc' = "scan" /\ text' = text
      /\ off' \in Nat /\ off' >= off + 1
      /\ Word \subseteq Word' /\ Slashes \subseteq Slashes'
      /\ AuthorityFirst' => AuthorityFirst
      /\ \A f \in Field : uri[f] \in Nat /\ uri'[f] \in Nat
      /\ \A f \in Field \ DOMAIN new : uri'[f] = uri[f]
      /\ \A f \in DOMAIN new \cap Field : new[f] >= 0 => uri'[f] <= new[f]
  <2>1. \A f \in DOMAIN new \cap Field : new[f] \in Int
    BY <1>3
  <2> QED
    BY <1>4, <2>1, ScanOne
<1>6. /\ {"host", "port_size"} \subseteq Field \ DOMAIN new
      /\ {"host_size", "port"} \subseteq DOMAIN new \cap Field
  BY <1>3 DEF Field, Width
<1>7. /\ uri'.host = uri.host /\ uri'.port_size = uri.port_size
      /\ uri'.host_size \in Nat /\ uri'.port \in Nat
      /\ off - uri.host >= 0 => uri'.host_size <= off - uri.host
      /\ uri'.port <= off + 1
  BY <1>3, <1>5, <1>6
<1>8. uri.host # 0 /\ uri.port_size = 0 /\ uri.host_size = 0
  BY <1>4 DEF Scan, Branch
<1>9. HostMarked'
  <2>1. HostMarked
    BY <1>4 DEF UriInv, Scan
  <2> QED
    BY <1>5, <1>8, <2>1 DEF HostMarked
<1>10. AuthorityFirst' => HostAndPortEnd'
  <2>1. AuthorityFirst' => uri.host + uri.host_size <= off
    BY <1>4, <1>5 DEF UriInv, HostAndPortEnd, Scan
  <2>2. AuthorityFirst' => uri.host <= off
    BY <1>2, <1>8, <2>1
  <2>3. AuthorityFirst' => /\ uri'.host + uri'.host_size <= off'
                           /\ uri'.port + uri'.port_size <= off'
    BY <1>2, <1>5, <1>7, <1>8, <2>2
  <2> QED
    BY <2>3 DEF HostAndPortEnd
<1> QED
  BY <1>5, <1>9, <1>10 DEF UriInv

(* A "//" begins the host: if it is the only one and no "@" came before it,
   there was none yet. *)
LEMMA AuthorityKeeps ==
  ASSUME UriInv, Authority
  PROVE  UriInv'
<1>1. PICK new : new = [host |-> off + 2]
  OBVIOUS
<1>2. /\ off \in Nat /\ TypeInv /\ HostMarked /\ (AuthorityFirst => HostAndPortEnd)
      /\ uri \in [Field -> Nat]
  BY DEF UriInv, TypeInv, Authority, Scan
<1>3. DOMAIN new = {"host"} /\ new["host"] = off + 2 /\ new["host"] \in Nat
  BY <1>1, <1>2
<1>4. Scan("authority", new, 2)
  BY <1>1 DEF Authority
<1>5. Is("/") /\ SlashFollows
  BY <1>4 DEF Scan, Branch
<1>6. /\ TypeInv' /\ pc' = "scan" /\ text' = text
      /\ off' >= off + 2 /\ uri' = Store(uri, new)
      /\ Word \subseteq Word' /\ Slashes \subseteq Slashes'
      /\ pos \notin Word /\ (\A k \in Word : k < pos) /\ pos \in Slashes'
      /\ AuthorityFirst' => AuthorityFirst
  <2>1. 2 \in {1, 2} /\ \A f \in DOMAIN new \cap Field : new[f] \in Int
    BY <1>3
  <2> QED
    BY <1>2, <1>4, <1>5, <2>1, ScanMoves
<1>7. /\ {"host_size", "port", "port_size"} \subseteq Field \ DOMAIN new
      /\ "host" \in DOMAIN new \cap Field
  BY <1>3 DEF Field, Width
<1>8. /\ uri'.host_size = uri.host_size /\ uri'.port = uri.port
      /\ uri'.port_size = uri.port_size
      /\ uri'.host \in Nat /\ uri'.host <= off + 2
      /\ uri.host \in Nat /\ uri.host_size \in Nat
      /\ uri.port \in Nat /\ uri.port_size \in Nat
  <2>1. \A f \in DOMAIN new \cap Field : new[f] \in Int
    BY <1>3
  <2>2. Store(uri, new) \in [Field -> Nat]
    BY <1>2, <2>1, Stored
  <2>3. \A f \in Field \ DOMAIN new : uri'[f] = uri[f]
    BY <1>2, <1>6, <2>1, Stored
  <2>4. uri'["host"] <= new["host"]
    BY <1>2, <1>3, <1>6, <1>7, <2>1, Stored
  <2> QED
    BY <1>2, <1>3, <1>6, <1>7, <2>2, <2>3, <2>4
<1>9. HostMarked'
  BY <1>6 DEF HostMarked
<1>10. AuthorityFirst' => HostAndPortEnd'
  <2> SUFFICES ASSUME AuthorityFirst' PROVE HostAndPortEnd'
    OBVIOUS
  <2>1. Slashes' = {pos} /\ \A j \in Word' : text.tokens[j].c = "@" => pos < j
    BY <1>6 DEF AuthorityFirst
  <2>2. pos \in Nat /\ \A k \in Word : k \in Int
    BY <1>2, TextsAssumption DEF TypeInv, Word
  <2>3. Slashes = {}
    BY <1>6, <2>1 DEF Slashes
  <2>4. ~ \E k \in Word : text.tokens[k].c = "@"
    BY <1>6, <2>1, <2>2
  <2>5. uri.host = 0 /\ uri.host_size = 0
    BY <1>2, <2>3, <2>4 DEF HostMarked
  <2>6. uri.port + uri.port_size <= off
    BY <1>2, <1>6 DEF HostAndPortEnd
  <2>7. off' \in Nat
    BY <1>6 DEF TypeInv
  <2>8. uri'.host + uri'.host_size <= off' /\ uri'.port + uri'.port_size <= off'
    BY <1>2, <1>6, <1>8, <2>5, <2>6, <2>7
  <2> QED
    BY <2>8 DEF HostAndPortEnd
<1> QED
  BY <1>6, <1>9, <1>10 DEF UriInv

(* The user that turns out to have been taken for a host makes room for the
   host behind it. *)
LEMMA UserEndKeeps ==
  ASSUME UriInv, UserEnd
  PROVE  UriInv'
<1>1. off \in Nat /\ \A f \in Field : uri[f] \in Nat
  BY DEF UriInv, TypeInv
<1>2. /\ {"host", "path", "host_size", "port", "port_size"} \subseteq Field
      /\ UserOffset(uri.host) \in Nat /\ UserOffset(uri.path) \in Nat
  <2>1. {"userinfo", "host", "path", "host_size", "port", "port_size"} \subseteq Field
    BY DEF Field, Width
  <2> QED
    BY <1>1, <2>1, CutToWidth, SMTT(30) DEF UserOffset
<1>3. text.tokens[pos].c = "@"
  BY DEF UserEnd, Scan, Branch, Is
<1>4. ASSUME uri.host # 0,
             Scan("user end",
                  [userinfo |-> uri.host, userinfo_size |-> off - UserOffset(uri.host),
                   host |-> off + 1, host_size |-> 0, port |-> 0, port_size |-> 0], 1)
      PROVE  UriInv'
  <2>1. PICK new : new = [userinfo |-> uri.host, userinfo_size |-> off - UserOffset(uri.host),
                          host |-> off + 1, host_size |-> 0, port |-> 0, port_size |-> 0]
    OBVIOUS
  <2>2. /\ DOMAIN new = {"userinfo", "userinfo_size", "host", "host_size", "port", "port_size"}
        /\ new["host"] = off + 1 /\ new["host_size"] = 0
        /\ new["port"] = 0 /\ new["port_size"] = 0
    BY <2>1
  <2>3. \A f \in DOMAIN new \cap Field : new[f] \in Int
    BY <1>1, <1>2, <2>1
  <2>4. Scan("user end", new, 1)
    BY <1>4, <2>1
  <2>5. /\ TypeInv' /\ pc' = "scan" /\ text' = text
        /\ off' \in Nat /\ off' >= off + 1 /\ pos \in Word'
        /\ \A f \in Field : uri'[f] \in Nat
        /\ \A f \in DOMAIN new \cap Field : new[f] >= 0 => uri'[f] <= new[f]
    BY <2>3, <2>4, ScanOne
  <2>6. {"host", "host_size", "port", "port_size"} \subseteq DOMAIN new \cap Field
    BY <1>2, <2>2
  <2>7. /\ uri'.host \in Nat /\ uri'.host <= off + 1
        /\ uri'.host_size = 0 /\ uri'.port = 0 /\ uri'.port_size = 0
    <3>1. new["host"] >= 0 /\ new["host_size"] >= 0 /\ new["port"] >= 0 /\ new["port_size"] >= 0
      BY <1>1, <2>2
    <3>2. /\ uri'.host \in Nat /\ uri'.host <= off + 1
          /\ uri'.host_size \in Nat /\ uri'.host_size <= 0
          /\ uri'.port \in Nat /\ uri'.port <= 0
          /\ uri'.port_size \in Nat /\ uri'.port_size <= 0
      BY <2>2, <2>5, <2>6, <3>1
    <3> QED
      BY <3>2
  <2>8. HostMarked'
    BY <1>3, <2>5 DEF HostMarked
  <2>9. HostAndPortEnd'
    BY <1>1, <2>5, <2>7 DEF HostAndPortEnd
  <2> QED
    BY <2>5, <2>8, <2>9 DEF UriInv
<1>5. ASSUME Scan("user end",
                  [userinfo |-> uri.path, userinfo_size |-> off - UserOffset(uri.path),
                   path |-> 0, host |-> off + 1, host_size |-> 0], 1)
      PROVE  UriInv'
  <2>1. PICK new : new = [userinfo |-> uri.path, userinfo_size |-> off - UserOffset(uri.path),
                          path |-> 0, host |-> off + 1, host_size |-> 0]
    OBVIOUS
  <2>2. /\ DOMAIN new = {"userinfo", "userinfo_size", "path", "host", "host_size"}
        /\ new["host"] = off + 1 /\ new["host_size"] = 0
    BY <2>1
  <2>3. \A f \in DOMAIN new \cap Field : new[f] \in Int
    BY <1>1, <1>2, <2>1
  <2>4. Scan("user end", new, 1)
    BY <1>5, <2>1
  <2>5. /\ TypeInv' /\ pc' = "scan" /\ text' = text
        /\ off' \in Nat /\ off' >= off + 1 /\ pos \in Word'
        /\ AuthorityFirst' => AuthorityFirst
        /\ \A f \in Field : uri'[f] \in Nat
        /\ \A f \in Field \ DOMAIN new : uri'[f] = uri[f]
        /\ \A f \in DOMAIN new \cap Field : new[f] >= 0 => uri'[f] <= new[f]
    BY <2>3, <2>4, ScanOne
  <2>6. /\ {"host", "host_size"} \subseteq DOMAIN new \cap Field
        /\ {"port", "port_size"} \subseteq Field \ DOMAIN new
    BY <1>2, <2>2
  <2>7. /\ uri'.host \in Nat /\ uri'.host <= off + 1 /\ uri'.host_size = 0
        /\ uri'.port = uri.port /\ uri'.port_size = uri.port_size
    <3>1. new["host"] >= 0 /\ new["host_size"] >= 0
      BY <1>1, <2>2
    <3>2. /\ uri'.host \in Nat /\ uri'.host <= off + 1
          /\ uri'.host_size \in Nat /\ uri'.host_size <= 0
          /\ uri'.port = uri.port /\ uri'.port_size = uri.port_size
      BY <2>2, <2>5, <2>6, <3>1
    <3> QED
      BY <3>2
  <2>8. HostMarked'
    BY <1>3, <2>5 DEF HostMarked
  <2>9. AuthorityFirst' => HostAndPortEnd'
    <3>1. AuthorityFirst' => uri.port + uri.port_size <= off
      BY <2>4, <2>5 DEF UriInv, HostAndPortEnd, Scan
    <3>2. uri.port \in Nat /\ uri.port_size \in Nat
      BY <1>1, <1>2
    <3>3. AuthorityFirst' => /\ uri'.host + uri'.host_size <= off'
                             /\ uri'.port + uri'.port_size <= off'
      BY <1>1, <2>5, <2>7, <3>1, <3>2
    <3> QED
      BY <3>3 DEF HostAndPortEnd
  <2> QED
    BY <2>5, <2>8, <2>9 DEF UriInv
<1>6. ASSUME Scan("user end", Unchanged, 1) PROVE UriInv'
  <2>1. DOMAIN Unchanged = {}
    BY DEF Unchanged
  <2> QED
    BY <1>6, <2>1, ScanElsewhere
<1> QED
  BY <1>4, <1>5, <1>6 DEF UserEnd

(* The end of the host, or of the port, that the path begins behind. *)
LEMMA HostOrPortEnds ==
  ASSUME UriInv, pc = "scan", NEW rest,
         DOMAIN rest \cap {"host", "host_size", "port", "port_size"} = {},
         \A f \in DOMAIN rest : rest[f] \in Int,
         NEW stored \in [Field -> Nat], NEW new,
         new = And(rest, HostOrPort),
         \A f \in Field \ DOMAIN new : stored[f] = uri[f],
         \A f \in DOMAIN new \cap Field : new[f] >= 0 => stored[f] <= new[f]
  PROVE  /\ \A f \in DOMAIN new \cap Field : new[f] \in Int
         /\ stored.host = uri.host
         /\ uri.port # 0 => stored.host_size = uri.host_size
         /\ AuthorityFirst => /\ stored.host + stored.host_size <= off
                              /\ stored.port + stored.port_size <= off
<1>1. /\ off \in Nat /\ uri.host \in Nat /\ uri.host_size \in Nat
      /\ uri.port \in Nat /\ uri.port_size \in Nat
  BY DEF UriInv, TypeInv, Field, Width
<1>2. /\ stored.host \in Nat /\ stored.host_size \in Nat
      /\ stored.port \in Nat /\ stored.port_size \in Nat
  BY DEF Field, Width
<1>3. PICK h : h = HostOrPort
  OBVIOUS
<1>4. /\ DOMAIN new = DOMAIN rest \cup DOMAIN h
      /\ \A f \in DOMAIN rest : new[f] = rest[f]
      /\ \A f \in DOMAIN h \ DOMAIN rest : new[f] = h[f]
  BY <1>3 DEF And
<1>5. AuthorityFirst => uri.host + uri.host_size <= off /\ uri.port + uri.port_size <= off
  BY DEF UriInv, HostAndPortEnd
<1>6. CASE uri.port # 0
  <2>1. DOMAIN h = {"port_size"} /\ h["port_size"] = off - uri.port
    BY <1>3, <1>6 DEF HostOrPort
  <2>2. new["port_size"] = off - uri.port
    BY <1>4, <2>1
  <2>3. /\ {"host", "host_size", "port"} \subseteq Field \ DOMAIN new
        /\ "port_size" \in DOMAIN new \cap Field
    BY <1>4, <2>1 DEF Field, Width
  <2>4. \A f \in DOMAIN new \cap Field : new[f] \in Int
    BY <1>1, <1>4, <2>1, <2>2
  <2>5. /\ stored.host = uri.host /\ stored.host_size = uri.host_size
        /\ stored.port = uri.port
        /\ off - uri.port >= 0 => stored.port_size <= off - uri.port
    BY <2>2, <2>3
  <2>6. AuthorityFirst => /\ stored.host + stored.host_size <= off
                          /\ stored.port + stored.port_size <= off
    BY ONLY <1>1, <1>2, <1>5, <2>5
  <2> QED
    BY <2>4, <2>5, <2>6
<1>7. CASE uri.port = 0
  <2>1. DOMAIN h = {"host_size"} /\ h["host_size"] = off - uri.host
    BY <1>3, <1>7 DEF HostOrPort
  <2>2. new["host_size"] = off - uri.host
    BY <1>4, <2>1
  <2>3. /\ {"host", "port", "port_size"} \subseteq Field \ DOMAIN new
        /\ "host_size" \in DOMAIN new \cap Field
    BY <1>4, <2>1 DEF Field, Width
  <2>4. \A f \in DOMAIN new \cap Field : new[f] \in Int
    BY <1>1, <1>4, <2>1, <2>2
  <2>5. /\ stored.host = uri.host /\ stored.port_size = uri.port_size
        /\ stored.port = uri.port
        /\ off - uri.host >= 0 => stored.host_size <= off - uri.host
    BY <2>2, <2>3
  <2>6. AuthorityFirst => /\ stored.host + stored.host_size <= off
                          /\ stored.port + stored.port_size <= off
    BY ONLY <1>1, <1>2, <1>5, <2>5
  <2> QED
    BY <1>7, <2>4, <2>5, <2>6
<1> QED
  BY <1>6, <1>7

(* A branch that closes the host or the port closes one that there is. *)
LEMMA ScanHostOrPort ==
  ASSUME UriInv, NEW branch, NEW rest,
         DOMAIN rest \cap {"host", "host_size", "port", "port_size"} = {},
         \A f \in DOMAIN rest : rest[f] \in Int,
         Scan(branch, And(rest, HostOrPort), 1),
         uri.host # 0 \/ uri.port # 0
  PROVE  UriInv'
<1>1. PICK new : new = And(rest, HostOrPort)
  OBVIOUS
<1>2. pc = "scan"
  BY DEF Scan
<1>3. \A f \in DOMAIN new \cap Field : new[f] \in Int
  <2>1. PICK h : h = HostOrPort
    OBVIOUS
  <2>2. \A f \in DOMAIN h : h[f] \in Int
    BY <2>1, SMTT(30) DEF HostOrPort, UriInv, TypeInv, Field, Width
  <2> QED
    BY <1>1, <2>1, <2>2, AndInt
<1>4. /\ TypeInv' /\ pc' = "scan" /\ text' = text
      /\ off \in Nat /\ off' \in Nat /\ off' >= off + 1
      /\ Word \subseteq Word' /\ Slashes \subseteq Slashes'
      /\ AuthorityFirst' => AuthorityFirst
      /\ \A f \in Field : uri[f] \in Nat /\ uri'[f] \in Nat
      /\ \A f \in Field \ DOMAIN new : uri'[f] = uri[f]
      /\ \A f \in DOMAIN new \cap Field : new[f] >= 0 => uri'[f] <= new[f]
  BY <1>1, <1>3, ScanOne
<1>5. PICK stored : stored = uri'
  OBVIOUS
<1>6. stored \in [Field -> Nat]
  BY <1>4, <1>5 DEF TypeInv
<1>7. /\ stored.host = uri.host
      /\ uri.port # 0 => stored.host_size = uri.host_size
      /\ AuthorityFirst => /\ stored.host + stored.host_size <= off
                           /\ stored.port + stored.port_size <= off
  BY <1>1, <1>2, <1>4, <1>5, <1>6, HostOrPortEnds
<1>8. HostMarked'
  BY <1>2, <1>4, <1>5, <1>7 DEF HostMarked, UriInv
<1>9. AuthorityFirst' => HostAndPortEnd'
  <2>1. /\ stored.host \in Nat /\ stored.host_size \in Nat
        /\ stored.port \in Nat /\ stored.port_size \in Nat
    BY <1>6 DEF Field, Width
  <2>2. AuthorityFirst' => /\ stored.host + stored.host_size <= off'
                           /\ stored.port + stored.port_size <= off'
    BY <1>4, <1>7, <2>1
  <2> QED
    BY <1>5, <2>2 DEF HostAndPortEnd
<1> QED
  BY <1>4, <1>8, <1>9 DEF UriInv

(* The branches of the scan, all of them. *)
LEMMA ScanKeeps ==
  ASSUME UriInv,
         \/ SchemeEnd \/ HostEnd \/ Authority \/ UserEnd \/ PathEnd \/ QueryEnd
         \/ OpaquePath \/ Path \/ NoEffect
  PROVE  UriInv'
<1>1. off \in Nat /\ \A f \in Field : uri[f] \in Nat
  BY DEF UriInv, TypeInv
<1>2. {"path", "query", "port", "host"} \subseteq Field
  BY DEF Field, Width
<1>3. ASSUME SchemeEnd PROVE UriInv'
  <2>1. PICK new : new = [scheme_size |-> off]
    OBVIOUS
  <2>2. DOMAIN new = {"scheme_size"} /\ new["scheme_size"] \in Int
    BY <1>1, <2>1
  <2>3. Scan("scheme", new, 1)
    BY <1>3, <2>1 DEF SchemeEnd
  <2> QED
    BY <2>2, <2>3, ScanElsewhere
<1>4. /\ DOMAIN PathClosed \subseteq {"path", "path_size"}
      /\ \A f \in DOMAIN PathClosed : PathClosed[f] \in Int
  <2>1. 2^Width.path \in Nat \ {0}
    <3>1. Width.path = 11 /\ 2^11 \in Nat \ {0}
      BY DEF Width
    <3> QED
      BY <3>1, Zenon
  <2>2. off - (off % 2^Width.path) \in Int
    BY <1>1, <2>1
  <2> QED
    BY <1>1, <1>2, <2>2 DEF PathClosed
<1>5. ASSUME PathEnd PROVE UriInv'
  <2>1. PICK new : new = And([query |-> off + 1], PathClosed)
    OBVIOUS
  <2>2. /\ DOMAIN new \subseteq {"query", "path", "path_size"}
        /\ \A f \in DOMAIN new : new[f] \in Int
    BY <1>1, <1>4, <2>1 DEF And
  <2>3. Scan("path end", new, 1)
    BY <1>5, <2>1 DEF PathEnd
  <2>4. DOMAIN new \cap {"host", "host_size", "port", "port_size"} = {}
    BY <2>2
  <2> QED
    BY <2>2, <2>3, <2>4, ScanElsewhere
<1>6. ASSUME QueryEnd PROVE UriInv'
  <2>1. PICK rest : rest = IF uri.query # 0 THEN [query_size |-> off - uri.query] ELSE PathClosed
    OBVIOUS
  <2>2. PICK new : new = And([fragment |-> off + 1], rest)
    OBVIOUS
  <2>3. /\ DOMAIN rest \subseteq {"query_size", "path", "path_size"}
        /\ \A f \in DOMAIN rest : rest[f] \in Int
    BY <1>1, <1>2, <1>4, <2>1
  <2>4. /\ DOMAIN new \subseteq {"fragment", "query_size", "path", "path_size"}
        /\ \A f \in DOMAIN new : new[f] \in Int
    BY <1>1, <2>2, <2>3 DEF And
  <2>5. Scan("query end", new, 1)
    BY <1>6, <2>1, <2>2 DEF QueryEnd
  <2>6. DOMAIN new \cap {"host", "host_size", "port", "port_size"} = {}
    BY <2>4
  <2> QED
    BY <2>4, <2>5, <2>6, ScanElsewhere
<1>7. PICK opaque : opaque = [path |-> off]
  OBVIOUS
<1>8. DOMAIN opaque = {"path"} /\ opaque["path"] \in Int
  BY <1>1, <1>7
<1>9. ASSUME OpaquePath, uri.port # 0 PROVE UriInv'
  <2>1. Scan("opaque", And(opaque, HostOrPort), 1)
    BY <1>7, <1>9 DEF OpaquePath, HostOrPort
  <2> QED
    BY <1>8, <1>9, <2>1, ScanHostOrPort
<1>10. ASSUME OpaquePath, uri.port = 0 PROVE UriInv'
  <2>1. PICK new : new = And(opaque, Unchanged)
    OBVIOUS
  <2>2. DOMAIN new = {"path"} /\ new["path"] \in Int
    BY <1>8, <2>1 DEF And, Unchanged
  <2>3. Scan("opaque", new, 1)
    BY <1>7, <1>10, <2>1 DEF OpaquePath
  <2> QED
    BY <2>2, <2>3, ScanElsewhere
<1>11. ASSUME Path PROVE UriInv'
  <2>1. PICK rest : rest = [path |-> off + 1]
    OBVIOUS
  <2>2. DOMAIN rest = {"path"} /\ rest["path"] \in Int
    BY <1>1, <2>1
  <2>3. Scan("path", And(rest, HostOrPort), 1)
    BY <1>11, <2>1 DEF Path
  <2>4. uri.host # 0
    BY <2>3 DEF Scan, Branch
  <2> QED
    BY <2>2, <2>3, <2>4, ScanHostOrPort
<1>12. ASSUME NoEffect PROVE UriInv'
  <2>1. DOMAIN Unchanged = {}
    BY DEF Unchanged
  <2> QED
    BY <1>12, <2>1, ScanElsewhere DEF NoEffect
<1> QED
  BY <1>3, <1>5, <1>6, <1>9, <1>10, <1>11, <1>12, HostEndKeeps, AuthorityKeeps, UserEndKeeps

-----------------------------------------------------------------------------
(* The end of a URI, and the next one. *)

(* What the last branch closes, and the length of the part that is still open. *)
LEMMA ReturnKeeps ==
  ASSUME UriInv, Return
  PROVE  UriInv'
<1>1. /\ TypeInv /\ pc = "scan" /\ HostMarked /\ (AuthorityFirst => HostAndPortEnd)
      /\ off \in Nat /\ uri \in [Field -> Nat]
      /\ UNCHANGED <<text, pos, off>> /\ pc' \in {"ok", "error"}
  BY DEF UriInv, TypeInv, Return
<1>2. PICK closed : closed = Closed
  OBVIOUS
<1>3. /\ closed \in [Field -> Nat]
      /\ closed.host # 0 \/ closed.host_size # 0 => uri.host # 0 \/ uri.host_size # 0
      /\ AuthorityFirst => /\ closed.host + closed.host_size <= off
                           /\ closed.port + closed.port_size <= off
  <2>1. CASE uri.path = 0 /\ uri.host # 0
    <3>1. PICK rest : rest = [path |-> off]
      OBVIOUS
    <3>2. DOMAIN rest = {"path"} /\ rest["path"] \in Int
      BY <1>1, <3>1
    <3>3. PICK new : new = And(rest, HostOrPort)
      OBVIOUS
    <3>4. closed = Store(uri, new)
      BY <1>2, <2>1, <3>1, <3>3 DEF Closed
    <3>5. \A f \in DOMAIN new \cap Field : new[f] \in Int
      <4>1. PICK h : h = HostOrPort
        OBVIOUS
      <4>2. \A f \in DOMAIN h : h[f] \in Int
        BY <4>1, SMTT(30) DEF HostOrPort, UriInv, TypeInv, Field, Width
      <4> QED
        BY <3>2, <3>3, <4>1, <4>2, AndInt
    <3>6. /\ closed \in [Field -> Nat]
          /\ \A f \in Field \ DOMAIN new : closed[f] = uri[f]
          /\ \A f \in DOMAIN new \cap Field : new[f] >= 0 => closed[f] <= new[f]
      BY <1>1, <3>4, <3>5, Stored
    <3>7. /\ AuthorityFirst => /\ closed.host + closed.host_size <= off
                               /\ closed.port + closed.port_size <= off
      BY <1>1, <3>2, <3>3, <3>6, HostOrPortEnds
    <3> QED
      BY <2>1, <3>6, <3>7
  <2>2. CASE ~(uri.path = 0 /\ uri.host # 0)
    <3>1. closed = uri
      BY <1>2, <2>2 DEF Closed
    <3> QED
      BY <1>1, <3>1 DEF HostAndPortEnd
  <2> QED
    BY <2>1, <2>2
<1>4. PICK set \in SUBSET {"path_size", "query_size", "fragment_size"} :
        /\ uri' \in [Field -> Nat]
        /\ \A f \in Field \ set : uri'[f] = closed[f]
  <2>1. CASE Open = {}
    <3>1. uri' = closed
      BY <1>2, <2>1 DEF Return
    <3> QED
      BY <1>3, <3>1
  <2>2. CASE Open # {}
    <3>1. PICK k : k = Min(Open)
      OBVIOUS
    <3>2. DOMAIN Tails = 1 .. 3
      BY DEF Tails
    <3>3. k \in 1 .. 3
      <4>1. Open \subseteq 1 .. 3
        BY <3>2 DEF Open
      <4>2. \E x \in Open : \A y \in Open : x <= y
        <5>1. PICK x \in Open : TRUE
          BY <2>2
        <5>2. x = 1 \/ x = 2 \/ x = 3
          BY <4>1, <5>1
        <5>3. \A y \in Open : y = 1 \/ y = 2 \/ y = 3
          BY <4>1
        <5>4. CASE 1 \in Open
          BY ONLY <5>3, <5>4
        <5>5. CASE 1 \notin Open /\ 2 \in Open
          BY ONLY <5>3, <5>5
        <5>6. CASE 1 \notin Open /\ 2 \notin Open
          BY ONLY <5>2, <5>3, <5>6
        <5> QED
          BY <5>4, <5>5, <5>6
      <4>3. k \in Open
        BY <3>1, <4>2 DEF Min
      <4> QED
        BY <4>1, <4>3
    <3>4. /\ Tails[1] = <<"path", "path_size">> /\ Tails[2] = <<"query", "query_size">>
          /\ Tails[3] = <<"fragment", "fragment_size">>
      BY DEF Tails
    <3>5. PICK part, size : part = Tails[k][1] /\ size = Tails[k][2]
      OBVIOUS
    <3>6. part \in {"path", "query", "fragment"}
          /\ size \in {"path_size", "query_size", "fragment_size"}
      BY <3>3, <3>4, <3>5
    <3>7. PICK new : new = [f \in {size} |-> off - closed[part]]
      OBVIOUS
    <3>8. uri' = Store(closed, new)
      BY <1>2, <2>2, <3>1, <3>5, <3>7 DEF Return
    <3>9. part \in Field
      BY <3>6 DEF Field, Width
    <3>10. DOMAIN new = {size} /\ \A f \in DOMAIN new \cap Field : new[f] \in Int
      BY <1>1, <1>3, <3>7, <3>9
    <3>11. /\ uri' \in [Field -> Nat]
           /\ \A f \in Field \ {size} : uri'[f] = closed[f]
      BY <1>3, <3>8, <3>10, Stored
    <3> QED
      BY <3>6, <3>11
  <2> QED
    BY <2>1, <2>2
<1>5. {"host", "host_size", "port", "port_size"} \subseteq Field \ set
  BY DEF Field, Width
<1>6. /\ uri'.host = closed.host /\ uri'.host_size = closed.host_size
      /\ uri'.port = closed.port /\ uri'.port_size = closed.port_size
  BY <1>4, <1>5
<1>7. TypeInv'
  BY <1>1, <1>4 DEF TypeInv
<1>8. Word' = Word /\ Slashes' = Slashes
  BY <1>1 DEF Word, Slashes
<1>9. HostMarked'
  BY <1>1, <1>3, <1>6, <1>8 DEF HostMarked
<1>10. AuthorityFirst' = AuthorityFirst
  BY <1>1, <1>8 DEF AuthorityFirst
<1>11. AuthorityFirst' => HostAndPortEnd'
  BY <1>1, <1>3, <1>6, <1>10 DEF HostAndPortEnd
<1> QED
  BY <1>7, <1>9, <1>11 DEF UriInv

(* Nothing is recorded of the next URI before its first character. *)
LEMMA UriInvNext ==
  ASSUME UriInv, [Next]_vars
  PROVE  UriInv'
<1>1. ASSUME SkipSpace \/ NothingLeft PROVE UriInv'
  <2>1. TypeInv'
    <3>1. PICK l \in Nat : l = Len(text.tokens)
      BY TextsAssumption DEF UriInv, TypeInv
    <3>2. pos \in 1 .. l + 1
      BY <3>1 DEF UriInv, TypeInv
    <3>2a. pos' = pos \/ (pos' = pos + 1 /\ ~(pos > l))
      BY <1>1, <3>1 DEF SkipSpace, NothingLeft, Is, AtEnd
    <3>3. pos' \in 1 .. l + 1
      BY ONLY <3>1, <3>2, <3>2a
    <3> QED
      BY <1>1, <3>1, <3>3 DEF SkipSpace, NothingLeft, UriInv, TypeInv
  <2>2. pc' \notin {"scan", "ok"}
    BY <1>1 DEF SkipSpace, NothingLeft
  <2> QED
    BY <2>1, <2>2 DEF UriInv
<1>2. ASSUME Begin PROVE UriInv'
  <2>1. TypeInv' /\ UNCHANGED <<text, pos, off, uri>> /\ off = 0 /\ uri = Zero
    BY <1>2 DEF Begin, UriInv, TypeInv
  <2>2. /\ uri.host = 0 /\ uri.host_size = 0 /\ uri.port = 0 /\ uri.port_size = 0
    BY <2>1 DEF Zero, Field, Width
  <2>3. HostMarked' /\ HostAndPortEnd'
    BY <2>1, <2>2 DEF HostMarked, HostAndPortEnd
  <2> QED
    BY <2>1, <2>3 DEF UriInv
<1>3. ASSUME CallAgain PROVE UriInv'
  <2>1. Zero \in [Field -> Nat]
    BY DEF Zero
  <2>2. TypeInv'
    BY <1>3, <2>1 DEF CallAgain, UriInv, TypeInv
  <2> QED
    BY <1>3, <2>2 DEF CallAgain, UriInv
<1>4. ASSUME UNCHANGED vars PROVE UriInv'
  <2>1. UNCHANGED <<text, pos, off, uri, pc>>
    BY <1>4 DEF vars
  <2>2. Word' = Word /\ Slashes' = Slashes
    BY <2>1 DEF Word, Slashes
  <2>3. AuthorityFirst' = AuthorityFirst /\ HostMarked' = HostMarked
    BY <2>1, <2>2 DEF AuthorityFirst, HostMarked
  <2>4. TypeInv' = TypeInv /\ HostAndPortEnd' = HostAndPortEnd
    BY <2>1 DEF TypeInv, HostAndPortEnd
  <2> QED
    BY <2>1, <2>3, <2>4 DEF UriInv
<1> QED
  BY <1>1, <1>2, <1>3, <1>4, ScanKeeps, ReturnKeeps DEF Next

(* Before the first call nothing is recorded. *)
LEMMA UriInvInit ==
  ASSUME Init
  PROVE  UriInv
<1>1. text \in Texts /\ text.tokens \in Seq(Token)
  BY TextsAssumption DEF Init, Token
<1>2. PICK l \in Nat : l = Len(text.tokens)
  BY <1>1
<1>3. 1 \in 1 .. l + 1
  OBVIOUS
<1> QED
  BY <1>1, <1>2, <1>3 DEF Init, UriInv, TypeInv, Zero

(* The host the server converts in place and the port it reads lie between the
   scheme and the end of every accepted URI whose "//" comes first, in every text:
   also where the offset or the length of a part does not fit its bit field
   (ain_proto_parse_uri, ain_inet_pton, ain_inet_setport). *)
THEOREM HostAndPortStayInside == Spec => []HostAndPortInText
<1>1. Init => UriInv
  BY UriInvInit
<1>2. UriInv /\ [Next]_vars => UriInv'
  BY UriInvNext
<1>3. UriInv => HostAndPortInText
  BY DEF UriInv, HostAndPortInText, HostAndPortEnd
<1> QED
  BY <1>1, <1>2, <1>3, PTL DEF Spec

-----------------------------------------------------------------------------
(* The loop over a list of URIs. *)

(* A call that is at the end of its URI has taken something since the last one
   returned. *)
Taken ==
  /\ calls \in Nat /\ calls < pos
  /\ pc = "scan" /\ (AtEnd \/ Is(" ")) => calls + 1 < pos

(* There are no more URIs than there is text: the loop that calls the parser until
   it fails (while (AIN_OK == ain_proto_parse_uri(...))) cannot go on for ever. *)
THEOREM EveryCallTakesText == Spec => [](calls <= Len(text.tokens))
<1>1. Init => UriInv /\ Taken
  BY UriInvInit DEF Init, Taken
<1>2. UriInv /\ Taken /\ [Next]_vars => UriInv' /\ Taken'
  <2> SUFFICES ASSUME UriInv, Taken, [Next]_vars PROVE Taken'
    BY UriInvNext
  <2>1. PICK p \in Nat : p = pos
    <3>1. PICK n \in Nat : n = Len(text.tokens)
      BY TextsAssumption DEF UriInv, TypeInv
    <3>2. pos \in 1 .. n + 1
      BY <3>1 DEF UriInv, TypeInv
    <3> QED
      BY ONLY <3>1, <3>2
  <2>2. PICK c \in Nat : c = calls
    BY DEF Taken
  <2>3. c < p
    BY <2>1, <2>2 DEF Taken
  <2>4. ASSUME NEW branch, NEW new, NEW tokens \in {1, 2}, Scan(branch, new, tokens)
        PROVE  Taken'
    <3>1. calls' = c /\ pos' = p + tokens /\ (tokens = 1 \/ tokens = 2)
      BY <2>1, <2>2, <2>4 DEF Scan
    <3>2. calls' \in Nat /\ calls' < pos' /\ calls' + 1 < pos'
      BY ONLY <2>1, <2>2, <2>3, <3>1
    <3> QED
      BY <3>2 DEF Taken
  <2>5. ASSUME \/ SchemeEnd \/ HostEnd \/ Authority \/ UserEnd \/ PathEnd \/ QueryEnd
               \/ OpaquePath \/ Path \/ NoEffect
        PROVE  Taken'
    <3>1. \E branch, new : Scan(branch, new, 1) \/ Scan(branch, new, 2)
      BY <2>5 DEF SchemeEnd, HostEnd, Authority, UserEnd, PathEnd, QueryEnd,
                  OpaquePath, Path, NoEffect
    <3> QED
      BY <2>4, <3>1
  <2>6. ASSUME SkipSpace PROVE Taken'
    <3>1. pos' = p + 1 /\ calls' = c /\ pc' = "skip"
      BY <2>1, <2>2, <2>6 DEF SkipSpace
    <3>2. calls' \in Nat /\ calls' < pos'
      BY ONLY <2>1, <2>2, <2>3, <3>1
    <3> QED
      BY <3>1, <3>2 DEF Taken
  <2>7. ASSUME NothingLeft \/ CallAgain PROVE Taken'
    BY <2>7 DEF NothingLeft, CallAgain, Taken
  <2>8. ASSUME Begin PROVE Taken'
    <3>1. UNCHANGED <<text, pos, calls>> /\ ~AtEnd /\ ~Is(" ")
      BY <2>8 DEF Begin
    <3>2. AtEnd' = AtEnd /\ Is(" ")' = Is(" ")
      BY <3>1 DEF AtEnd, Is
    <3> QED
      BY <3>1, <3>2 DEF Taken
  <2>9. ASSUME Return PROVE Taken'
    <3>1. c + 1 < p
      BY <2>1, <2>2, <2>9 DEF Taken, Return
    <3>2. pos' = p /\ (calls' = c \/ calls' = c + 1) /\ pc' \in {"ok", "error"}
      BY <2>1, <2>2, <2>9 DEF Return
    <3>3. calls' \in Nat /\ calls' < pos'
      BY ONLY <2>1, <2>2, <3>1, <3>2
    <3> QED
      BY <3>2, <3>3 DEF Taken
  <2>10. ASSUME UNCHANGED vars PROVE Taken'
    <3>1. UNCHANGED <<text, pos, pc, calls>>
      BY <2>10 DEF vars
    <3>2. AtEnd' = AtEnd /\ Is(" ")' = Is(" ")
      BY <3>1 DEF AtEnd, Is
    <3> QED
      BY <3>1, <3>2 DEF Taken
  <2> QED
    BY <2>5, <2>6, <2>7, <2>8, <2>9, <2>10 DEF Next
<1>3. UriInv /\ Taken => calls <= Len(text.tokens)
  <2> SUFFICES ASSUME UriInv, Taken PROVE calls <= Len(text.tokens)
    OBVIOUS
  <2>1. PICK n \in Nat : n = Len(text.tokens)
    BY TextsAssumption DEF UriInv, TypeInv
  <2>2. pos \in 1 .. n + 1
    BY <2>1 DEF UriInv, TypeInv
  <2>3. calls \in Nat /\ calls < pos
    BY DEF Taken
  <2>4. calls <= n
    BY ONLY <2>1, <2>2, <2>3
  <2> QED
    BY <2>1, <2>4
<1> QED
  BY <1>1, <1>2, <1>3, PTL DEF Spec

-----------------------------------------------------------------------------
(* What 2^Width is, field by field. *)
Room ==
  [scheme_size |-> 8, userinfo |-> 16, userinfo_size |-> 256, host |-> 512,
   host_size |-> 256, port |-> 1024, port_size |-> 8, path |-> 2048,
   path_size |-> 4096, query |-> 8192, query_size |-> 16384, fragment |-> 32768,
   fragment_size |-> 1024]

Below(n, limit) == n \in Nat /\ n < limit

(* A URI of a text, and what follows it. *)
UriOf(t, o, m) ==
  /\ t \in Seq(Token) /\ \A k \in DOMAIN t : t[k].n = 1 \/ t[k].c = "a"
  /\ o \in [1 .. Len(t) + 1 -> Nat]
  /\ \A k \in DOMAIN t : o[k + 1] = o[k] + t[k].n
  /\ m \in Mark /\ m.first >= 1 /\ IsUri(t, m) /\ Fits(Meaning(o, m), m)
  /\ m.last = Len(t) + 1 \/ t[m.last].c = " "

(* The last mark before each field is known. *)
After(m) ==
  [scheme_size |-> m.scheme, userinfo |-> m.at, userinfo_size |-> m.at,
   host |-> m.at, host_size |-> m.host, port |-> m.host, port_size |-> m.port,
   path |-> m.port, path_size |-> m.path, query |-> m.path,
   query_size |-> m.query, fragment |-> m.query, fragment_size |-> m.last]
Known(u, m, k, f) == IF k > After(m)[f] THEN u[f] ELSE 0

(* Until the "@" the user may be a host and its port, or a path. *)
Unsure == {"host", "host_size", "port", "path"}
UserRead(o, m) ==
  /\ \A f \in Field \ Unsure : uri[f] = Known(Meaning(o, m), m, pos, f)
  /\ \/ /\ m.name = m.scheme + 1
        /\ uri.host = 0 /\ uri.host_size = 0 /\ uri.port = 0
        /\ uri.path = IF pos > m.name THEN o[m.name] - o[m.first] ELSE 0
     \/ /\ m.name = m.scheme + 3
        /\ uri.host = o[m.name] - o[m.first] /\ uri.path = 0
        /\ (\E k \in pos .. m.at - 1 : text.tokens[k].c = ":") => uri.host_size = 0

Read(o, m) ==
  /\ pos \in m.first .. m.last /\ (pos > m.scheme + 1 => pos >= m.name)
  /\ off = o[pos] - o[m.first]
  /\ IF m.name <= pos /\ pos <= m.at THEN UserRead(o, m)
     ELSE \A f \in Field : uri[f] = Known(Meaning(o, m), m, pos, f)

-----------------------------------------------------------------------------
(* The fields of a record, and the room there is for each. *)
LEMMA FieldsAre ==
  /\ Field = {"scheme_size", "userinfo", "userinfo_size", "host", "host_size", "port",
              "port_size", "path", "path_size", "query", "query_size", "fragment",
              "fragment_size"}
  /\ \A f \in Field : 2^Width[f] = Room[f] /\ Room[f] \in Nat \ {0}
<1>1. Field = DOMAIN Room
  BY DEF Field, Width, Room
<1>2. /\ 2^3 = 8 /\ 2^4 = 16 /\ 2^8 = 256 /\ 2^9 = 512 /\ 2^10 = 1024 /\ 2^11 = 2048
      /\ 2^12 = 4096 /\ 2^13 = 8192 /\ 2^14 = 16384 /\ 2^15 = 32768
  BY SMT
<1>5. Field = {"scheme_size", "userinfo", "userinfo_size", "host", "host_size", "port",
              "port_size", "path", "path_size", "query", "query_size", "fragment",
              "fragment_size"}
  BY DEF Field, Width
<1>3a. /\ Width.scheme_size = 3 /\ Width.userinfo = 4 /\ Width.userinfo_size = 8
      /\ Width.host = 9 /\ Width.host_size = 8 /\ Width.port = 10
      /\ Width.port_size = 3 /\ Width.path = 11 /\ Width.path_size = 12
      /\ Width.query = 13 /\ Width.query_size = 14 /\ Width.fragment = 15
      /\ Width.fragment_size = 10
  BY DEF Width
<1>3b. /\ Room.scheme_size = 8 /\ Room.userinfo = 16 /\ Room.userinfo_size = 256
      /\ Room.host = 512 /\ Room.host_size = 256 /\ Room.port = 1024
      /\ Room.port_size = 8 /\ Room.path = 2048 /\ Room.path_size = 4096
      /\ Room.query = 8192 /\ Room.query_size = 16384 /\ Room.fragment = 32768
      /\ Room.fragment_size = 1024
  BY DEF Room
<1>3c. /\ 2^Width.scheme_size = Room.scheme_size /\ 2^Width.userinfo = Room.userinfo
      /\ 2^Width.userinfo_size = Room.userinfo_size /\ 2^Width.host = Room.host
      /\ 2^Width.host_size = Room.host_size /\ 2^Width.port = Room.port
      /\ 2^Width.port_size = Room.port_size /\ 2^Width.path = Room.path
      /\ 2^Width.path_size = Room.path_size /\ 2^Width.query = Room.query
      /\ 2^Width.query_size = Room.query_size /\ 2^Width.fragment = Room.fragment
      /\ 2^Width.fragment_size = Room.fragment_size
  <2>1. ASSUME NEW w, NEW r, w = 3, r = 8 PROVE 2^w = r
    BY <2>1, SMT
  <2>2. ASSUME NEW w, NEW r, w = 4, r = 16 PROVE 2^w = r
    BY <2>2, SMT
  <2>3. ASSUME NEW w, NEW r, w = 8, r = 256 PROVE 2^w = r
    BY <2>3, SMT
  <2>4. ASSUME NEW w, NEW r, w = 9, r = 512 PROVE 2^w = r
    BY <2>4, SMT
  <2>5. ASSUME NEW w, NEW r, w = 10, r = 1024 PROVE 2^w = r
    BY <2>5, SMT
  <2>6. ASSUME NEW w, NEW r, w = 11, r = 2048 PROVE 2^w = r
    BY <2>6, SMT
  <2>7. ASSUME NEW w, NEW r, w = 12, r = 4096 PROVE 2^w = r
    BY <2>7, SMT
  <2>8. ASSUME NEW w, NEW r, w = 13, r = 8192 PROVE 2^w = r
    BY <2>8, SMT
  <2>9. ASSUME NEW w, NEW r, w = 14, r = 16384 PROVE 2^w = r
    BY <2>9, SMT
  <2>10. ASSUME NEW w, NEW r, w = 15, r = 32768 PROVE 2^w = r
    BY <2>10, SMT
  <2> QED
    BY ONLY <1>3a, <1>3b, <2>1, <2>2, <2>3, <2>4, <2>5, <2>6, <2>7, <2>8, <2>9, <2>10
<1>3. ASSUME NEW f \in Field PROVE 2^Width[f] = Room[f]
  BY <1>3c, <1>5
<1>4. \A f \in Field : Room[f] \in Nat \ {0}
  BY DEF Field, Width, Room
<1> QED
  BY <1>3, <1>4, <1>5

(* What fits its field is stored as it is. *)
LEMMA StoreFits ==
  ASSUME NEW u \in [Field -> Nat], NEW new,
         \A f \in DOMAIN new \cap Field : Below(new[f], Room[f])
  PROVE  \A f \in Field : Store(u, new)[f] = IF f \in DOMAIN new THEN new[f] ELSE u[f]
<1> SUFFICES ASSUME NEW f \in Field
             PROVE  Store(u, new)[f] = IF f \in DOMAIN new THEN new[f] ELSE u[f]
  OBVIOUS
<1>1. Store(u, new)[f] = IF f \in DOMAIN new THEN new[f] % 2^Width[f] ELSE u[f]
  BY DEF Store
<1>2. 2^Width[f] = Room[f] /\ Room[f] \in Nat \ {0}
  BY FieldsAre
<1>3. \A r \in Nat \ {0} : \A v \in Nat : v < r => v % r = v
  OBVIOUS
<1> QED
  BY <1>1, <1>2, <1>3 DEF Below

(* The characters that end a part are one character long. *)
LEMMA OffsetsAt ==
  ASSUME NEW t, NEW o, NEW m, UriOf(t, o, m)
  PROVE  /\ Len(t) \in Nat /\ t \in [1 .. Len(t) -> Token]
         /\ \A k \in m.first .. m.last : k \in 1 .. Len(t) + 1 /\ o[k] \in Nat
         /\ \A k \in m.first .. m.last - 1 :
              /\ k \in 1 .. Len(t) /\ o[k + 1] = o[k] + t[k].n
              /\ t[k].c # "a" => o[k + 1] = o[k] + 1
<1>0. t \in Seq(Token)
  BY DEF UriOf
<1>1. PICK l \in Nat : l = Len(t)
  BY <1>0
<1>2a. t \in [1 .. l -> Token] /\ DOMAIN t = 1 .. l
  BY <1>0, <1>1
<1>2. /\ t \in [1 .. l -> Token] /\ o \in [1 .. l + 1 -> Nat]
      /\ \A k \in 1 .. l : o[k + 1] = o[k] + t[k].n /\ (t[k].n = 1 \/ t[k].c = "a")
  BY <1>1, <1>2a DEF UriOf
<1>3. m.first \in Nat /\ m.last \in Nat /\ m.first >= 1 /\ m.last <= l + 1
  BY <1>1 DEF UriOf, Mark, IsUri
<1>4. ASSUME NEW k \in m.first .. m.last PROVE k \in 1 .. l + 1 /\ o[k] \in Nat
  <2>1. k \in 1 .. l + 1
    BY ONLY <1>1, <1>3, <1>4
  <2> QED
    BY <1>2, <2>1
<1>5. ASSUME NEW k \in m.first .. m.last - 1
      PROVE  /\ k \in 1 .. l /\ o[k + 1] = o[k] + t[k].n
             /\ t[k].c # "a" => o[k + 1] = o[k] + 1
  <2>1. k \in 1 .. l
    BY ONLY <1>1, <1>3, <1>5
  <2> QED
    BY <1>2, <2>1
<1> QED
  BY <1>1, <1>2, <1>4, <1>5

(* The marks in their order, and the characters at them. *)
LEMMA MarksAt ==
  ASSUME NEW t, NEW o, NEW m, UriOf(t, o, m)
  PROVE  /\ m \in Mark /\ m.first >= 1
         /\ m.first < m.scheme /\ m.scheme < m.name /\ m.name <= m.at + 1
         /\ m.at + 1 < m.host /\ m.host <= m.port /\ m.port <= m.path
         /\ m.path <= m.query /\ m.query <= m.last
         /\ m.path = m.port => m.last = m.port
         /\ o[m.scheme + 1] = o[m.scheme] + 1
         /\ \/ m.name = m.scheme + 1 /\ m.at >= m.name
            \/ m.name = m.scheme + 3 /\ o[m.name] = o[m.scheme] + 3
         /\ m.at >= m.name => o[m.at + 1] = o[m.at] + 1
         /\ m.port > m.host => o[m.host + 1] = o[m.host] + 1
         /\ m.path > m.port => o[m.port + 1] = o[m.port] + 1
         /\ m.query > m.path => o[m.path + 1] = o[m.path] + 1
         /\ m.last > m.query => o[m.query + 1] = o[m.query] + 1
<1>1. IsUri(t, m) /\ m \in Mark /\ m.first >= 1
  BY DEF UriOf
<1>2. \A f \in {"first", "scheme", "name", "at", "host", "port", "path", "query", "last"} :
        m[f] \in Nat
  BY <1>1 DEF Mark
<1>3. /\ m.first < m.scheme /\ m.scheme < m.name /\ m.name <= m.at + 1
      /\ m.at + 1 < m.host /\ m.host <= m.port /\ m.port <= m.path
      /\ m.path <= m.query /\ m.query <= m.last
      /\ m.path = m.port => m.last = m.port
  BY <1>1 DEF IsUri
<1>4. \A k \in m.first .. m.last - 1 : t[k].c # "a" => o[k + 1] = o[k] + 1
  BY OffsetsAt
<1>5. \A k \in Nat : k >= m.first /\ k < m.last => k \in m.first .. m.last - 1
  BY ONLY <1>2
<1>6. o[m.scheme + 1] = o[m.scheme] + 1
  <2>1. t[m.scheme].c = ":"
    BY <1>1 DEF IsUri
  <2> QED
    BY <1>2, <1>3, <1>4, <1>5, <2>1
<1>7. \/ m.name = m.scheme + 1 /\ m.at >= m.name
      \/ m.name = m.scheme + 3 /\ o[m.name] = o[m.scheme] + 3
  <2> SUFFICES ASSUME m.name = m.scheme + 3, Only(t, m.scheme + 1, m.name, {"/"})
               PROVE  o[m.name] = o[m.scheme] + 3
    BY <1>1 DEF IsUri
  <2>1. m.scheme + 1 \in m.scheme + 1 .. m.name - 1 /\ m.scheme + 2 \in m.scheme + 1 .. m.name - 1
    BY ONLY <1>2, m.name = m.scheme + 3
  <2>2. t[m.scheme + 1].c = "/" /\ t[m.scheme + 2].c = "/"
    BY <2>1 DEF Only
  <2>3. /\ m.scheme + 1 \in Nat /\ m.scheme + 2 \in Nat /\ m.scheme + 1 >= m.first
        /\ m.scheme + 2 >= m.first /\ m.scheme + 1 < m.last /\ m.scheme + 2 < m.last
        /\ (m.scheme + 1) + 1 = m.scheme + 2 /\ (m.scheme + 2) + 1 = m.name
    BY ONLY <1>2, <1>3, m.name = m.scheme + 3
  <2>4. /\ o[m.scheme + 2] = o[m.scheme + 1] + 1
        /\ o[m.name] = o[m.scheme + 2] + 1
    BY <1>4, <1>5, <2>2, <2>3
  <2>5. o[m.scheme] \in Nat
    <3>1. m.scheme \in m.first .. m.last
      BY ONLY <1>2, <1>3
    <3> QED
      BY <3>1, OffsetsAt
  <2> QED
    BY ONLY <1>6, <2>4, <2>5
<1>8. m.at >= m.name => o[m.at + 1] = o[m.at] + 1
  <2>1. m.at >= m.name => t[m.at].c = "@"
    BY <1>1 DEF IsUri
  <2> QED
    BY <1>2, <1>3, <1>4, <1>5, <2>1
<1>9. m.port > m.host => o[m.host + 1] = o[m.host] + 1
  <2>1. m.port > m.host => t[m.host].c = ":"
    BY <1>1 DEF IsUri
  <2> QED
    BY <1>2, <1>3, <1>4, <1>5, <2>1
<1>10. m.path > m.port => o[m.port + 1] = o[m.port] + 1
  <2>1. m.path > m.port => t[m.port].c \in {"/", ";"}
    BY <1>1 DEF IsUri
  <2>2. m.path > m.port => t[m.port].c # "a"
    BY <2>1
  <2> QED
    BY <1>2, <1>3, <1>4, <1>5, <2>2
<1>11. m.query > m.path => o[m.path + 1] = o[m.path] + 1
  <2>1. m.query > m.path => t[m.path].c = "?"
    BY <1>1 DEF IsUri
  <2> QED
    BY <1>2, <1>3, <1>4, <1>5, <2>1
<1>12. m.last > m.query => o[m.query + 1] = o[m.query] + 1
  <2>1. m.last > m.query => t[m.query].c = "#"
    BY <1>1 DEF IsUri
  <2> QED
    BY <1>2, <1>3, <1>4, <1>5, <2>1
<1> QED
  BY <1>1, <1>3, <1>6, <1>7, <1>8, <1>9, <1>10, <1>11, <1>12

(* What a URI's record says, part by part; every value fits its field. *)
LEMMA MeaningIs ==
  ASSUME NEW t, NEW o, NEW m, UriOf(t, o, m), NEW M, M = Meaning(o, m)
  PROVE  /\ M \in [Field -> Nat] /\ \A f \in Field : Below(M[f], Room[f])
         /\ M.scheme_size = o[m.scheme] - o[m.first] /\ M.scheme_size # 0
         /\ m.at >= m.name => /\ M.userinfo = o[m.name] - o[m.first] /\ M.userinfo # 0
                              /\ M.userinfo_size = o[m.at] - o[m.name]
                              /\ M.userinfo_size # 0
         /\ m.at < m.name => M.userinfo = 0 /\ M.userinfo_size = 0
         /\ M.host = o[m.at + 1] - o[m.first] /\ M.host # 0
         /\ M.host_size = o[m.host] - o[m.at + 1] /\ M.host_size # 0
         /\ m.port > m.host => /\ M.port = o[m.host + 1] - o[m.first] /\ M.port # 0
                               /\ M.port_size = o[m.port] - o[m.host + 1]
                               /\ M.port_size # 0
         /\ m.port = m.host => M.port = 0 /\ M.port_size = 0
         /\ M.path # 0
         /\ m.path > m.port => /\ M.path = o[m.port + 1] - o[m.first]
                               /\ M.path_size = o[m.path] - o[m.port + 1]
                               /\ M.path_size # 0
         /\ m.path = m.port => M.path = o[m.port] - o[m.first] /\ M.path_size = 0
         /\ m.query > m.path => /\ M.query = o[m.path + 1] - o[m.first] /\ M.query # 0
                                /\ M.query_size = o[m.query] - o[m.path + 1]
                                /\ M.query_size # 0
         /\ m.query = m.path => M.query = 0 /\ M.query_size = 0
         /\ m.last > m.query => /\ M.fragment = o[m.query + 1] - o[m.first]
                                /\ M.fragment # 0
                                /\ M.fragment_size = o[m.last] - o[m.query + 1]
                                /\ M.fragment_size # 0
         /\ m.last = m.query => M.fragment = 0 /\ M.fragment_size = 0
<1>1. /\ m \in Mark /\ m.first >= 1
      /\ m.first < m.scheme /\ m.scheme < m.name /\ m.name <= m.at + 1
      /\ m.at + 1 < m.host /\ m.host <= m.port /\ m.port <= m.path
      /\ m.path <= m.query /\ m.query <= m.last
  BY MarksAt
<1>2. /\ m.first \in Nat /\ m.scheme \in Nat /\ m.name \in Nat /\ m.at \in Nat
      /\ m.host \in Nat /\ m.port \in Nat /\ m.path \in Nat /\ m.query \in Nat
      /\ m.last \in Nat
  BY <1>1 DEF Mark
<1>3. PICK of, os, on, oa, oa1, oh, oh1, op, op1, ot, ot1, oq, oq1, ol :
        /\ of = o[m.first] /\ os = o[m.scheme] /\ on = o[m.name] /\ oa = o[m.at]
        /\ oa1 = o[m.at + 1] /\ oh = o[m.host] /\ oh1 = o[m.host + 1]
        /\ op = o[m.port] /\ op1 = o[m.port + 1] /\ ot = o[m.path]
        /\ ot1 = o[m.path + 1] /\ oq = o[m.query] /\ oq1 = o[m.query + 1]
        /\ ol = o[m.last]
  OBVIOUS
<1>4. /\ \A k \in m.first .. m.last : o[k] \in Nat
  BY OffsetsAt
<1>5. /\ m.first \in m.first .. m.last /\ m.scheme \in m.first .. m.last
      /\ m.name \in m.first .. m.last /\ m.at \in m.first .. m.last
      /\ m.at + 1 \in m.first .. m.last /\ m.host \in m.first .. m.last
      /\ m.port \in m.first .. m.last /\ m.path \in m.first .. m.last
      /\ m.query \in m.first .. m.last /\ m.last \in m.first .. m.last
  BY ONLY <1>1, <1>2
<1>6. /\ of \in Nat /\ os \in Nat /\ on \in Nat /\ oa \in Nat /\ oa1 \in Nat /\ oh \in Nat
      /\ op \in Nat /\ ot \in Nat /\ oq \in Nat /\ ol \in Nat
  BY <1>3, <1>4, <1>5
<1>7. /\ on = os + 1 \/ on = os + 3
      /\ m.at >= m.name => oa1 = oa + 1
      /\ m.at < m.name => oa1 = on
      /\ m.port > m.host => oh1 = oh + 1
      /\ m.path > m.port => op1 = op + 1
      /\ m.query > m.path => ot1 = ot + 1
      /\ m.last > m.query => oq1 = oq + 1
      /\ m.port = m.host => op = oh
      /\ m.path = m.port => ot = op
      /\ m.query = m.path => oq = ot
  <2>1. m.at < m.name => m.at + 1 = m.name
    BY ONLY <1>1, <1>2
  <2> QED
    BY <1>3, <2>1, MarksAt
<1>8. M = Meaning(o, m)
  OBVIOUS
<1>9. /\ M.scheme_size = os - of
      /\ M.userinfo = IF m.at >= m.name THEN on - of ELSE 0
      /\ M.userinfo_size = IF m.at >= m.name THEN oa - on ELSE 0
      /\ M.host = oa1 - of
      /\ M.host_size = oh - oa1
      /\ M.port = IF m.port > m.host THEN oh1 - of ELSE 0
      /\ M.port_size = IF m.port > m.host THEN op - oh1 ELSE 0
      /\ M.path = IF m.path > m.port THEN op1 - of ELSE op - of
      /\ M.path_size = IF m.path > m.port THEN ot - op1 ELSE 0
      /\ M.query = IF m.query > m.path THEN ot1 - of ELSE 0
      /\ M.query_size = IF m.query > m.path THEN oq - ot1 ELSE 0
      /\ M.fragment = IF m.last > m.query THEN oq1 - of ELSE 0
      /\ M.fragment_size = IF m.last > m.query THEN ol - oq1 ELSE 0
  BY <1>3, <1>8 DEF Meaning
<1>10. /\ Held(M.scheme_size, 8) /\ Held(M.host_size, 256)
       /\ m.at >= m.name => Held(M.userinfo_size, 256)
       /\ m.port > m.host => Held(M.port_size, 8)
       /\ m.path > m.port => Held(M.path_size, 4096)
       /\ m.query > m.path => Held(M.query_size, 16384)
       /\ m.last > m.query => Held(M.fragment_size, 1024)
  <2>1. Fits(M, m)
    BY <1>8 DEF UriOf
  <2> QED
    BY ONLY <2>1 DEF Fits
<1>11. /\ Held(os - of, 8) /\ Held(oh - oa1, 256)
       /\ m.at >= m.name => Held(oa - on, 256)
       /\ m.port > m.host => Held(op - oh1, 8)
       /\ m.path > m.port => Held(ot - op1, 4096)
       /\ m.query > m.path => Held(oq - ot1, 16384)
       /\ m.last > m.query => Held(ol - oq1, 1024)
  BY ONLY <1>9, <1>10 DEF Held
<1>12. /\ Held(on - of, 11) /\ Held(oa1 - of, 267)
  BY ONLY <1>2, <1>6, <1>7, <1>11 DEF Held
<1>13. /\ Held(oh - of, 522) /\ Held(op - of, 530)
       /\ m.port > m.host => Held(oh1 - of, 523)
  BY ONLY <1>1, <1>2, <1>6, <1>7, <1>11, <1>12 DEF Held
<1>14. /\ Held(ot - of, 4626)
       /\ m.path > m.port => Held(op1 - of, 531)
  BY ONLY <1>1, <1>2, <1>6, <1>7, <1>11, <1>13 DEF Held
<1>14a. /\ Held(oq - of, 21010)
        /\ m.query > m.path => Held(ot1 - of, 4627)
        /\ m.last > m.query => Held(oq1 - of, 21011)
  BY ONLY <1>1, <1>2, <1>6, <1>7, <1>11, <1>14 DEF Held
<1>14b. /\ Below(M.userinfo, 16) /\ Below(M.userinfo_size, 256)
        /\ m.at >= m.name => M.userinfo # 0 /\ M.userinfo_size # 0
        /\ Held(M.host, 512) /\ Held(M.host_size, 256)
  BY ONLY <1>9, <1>10, <1>11, <1>12 DEF Held, Below
<1>14c. /\ Below(M.port, 1024) /\ Below(M.port_size, 8)
        /\ m.port > m.host => M.port # 0 /\ M.port_size # 0
        /\ Held(M.path, 2048) /\ Below(M.path_size, 4096)
        /\ m.path > m.port => M.path_size # 0
  <2>1. /\ Below(M.port, 1024) /\ Below(M.port_size, 8)
        /\ m.port > m.host => M.port # 0 /\ M.port_size # 0
    BY ONLY <1>9, <1>10, <1>13 DEF Held, Below
  <2>2. /\ Below(M.path_size, 4096)
        /\ m.path > m.port => M.path_size # 0
    BY ONLY <1>9, <1>10 DEF Held, Below
  <2>3. Held(M.path, 2048)
    BY ONLY <1>9, <1>13, <1>14 DEF Held
  <2> QED
    BY ONLY <2>1, <2>2, <2>3
<1>14d. /\ Below(M.query, 8192) /\ Below(M.query_size, 16384)
        /\ m.query > m.path => M.query # 0 /\ M.query_size # 0
        /\ Below(M.fragment, 32768) /\ Below(M.fragment_size, 1024)
        /\ m.last > m.query => M.fragment # 0 /\ M.fragment_size # 0
  BY ONLY <1>9, <1>10, <1>11, <1>14a DEF Held, Below
<1>15. \A f \in Field : Below(M[f], Room[f])
  <2>1. /\ Room.scheme_size = 8 /\ Room.userinfo = 16 /\ Room.userinfo_size = 256
        /\ Room.host = 512 /\ Room.host_size = 256 /\ Room.port = 1024
        /\ Room.port_size = 8 /\ Room.path = 2048 /\ Room.path_size = 4096
        /\ Room.query = 8192 /\ Room.query_size = 16384 /\ Room.fragment = 32768
        /\ Room.fragment_size = 1024
    BY DEF Room
  <2>2. /\ Below(M.scheme_size, 8) /\ Below(M.host, 512) /\ Below(M.host_size, 256)
        /\ Below(M.path, 2048)
    BY ONLY <1>10, <1>14b, <1>14c DEF Held, Below
  <2>3. /\ Below(M.scheme_size, Room.scheme_size) /\ Below(M.userinfo, Room.userinfo)
        /\ Below(M.userinfo_size, Room.userinfo_size) /\ Below(M.host, Room.host)
        /\ Below(M.host_size, Room.host_size) /\ Below(M.port, Room.port)
        /\ Below(M.port_size, Room.port_size) /\ Below(M.path, Room.path)
        /\ Below(M.path_size, Room.path_size) /\ Below(M.query, Room.query)
        /\ Below(M.query_size, Room.query_size) /\ Below(M.fragment, Room.fragment)
        /\ Below(M.fragment_size, Room.fragment_size)
    BY ONLY <1>14b, <1>14c, <1>14d, <2>1, <2>2
  <2> QED
    BY ONLY <2>3, FieldsAre
<1>16. M \in [Field -> Nat]
  <2>1. M = [f \in Field |-> M[f]]
    BY <1>8, FieldsAre DEF Meaning
  <2>2. \A f \in Field : M[f] \in Nat
    BY <1>15 DEF Below
  <2> QED
    BY <2>1, <2>2
<1>17. /\ m.at < m.name => ~(m.at >= m.name)
       /\ m.port = m.host => ~(m.port > m.host)
       /\ m.path = m.port => ~(m.path > m.port)
       /\ m.query = m.path => ~(m.query > m.path)
       /\ m.last = m.query => ~(m.last > m.query)
  BY ONLY <1>2
<1>18. M.path # 0 /\ M.host # 0 /\ M.host_size # 0 /\ M.scheme_size # 0
  BY ONLY <1>10, <1>14b, <1>14c DEF Held
<1>19. M \in [Field -> Nat] /\ \A f \in Field : Below(M[f], Room[f])
  BY <1>15, <1>16
<1>20. /\ m.at >= m.name => /\ M.userinfo = on - of /\ M.userinfo # 0
                            /\ M.userinfo_size = oa - on /\ M.userinfo_size # 0
       /\ m.at < m.name => M.userinfo = 0 /\ M.userinfo_size = 0
       /\ m.port > m.host => /\ M.port = oh1 - of /\ M.port # 0
                             /\ M.port_size = op - oh1 /\ M.port_size # 0
       /\ m.port = m.host => M.port = 0 /\ M.port_size = 0
       /\ m.path > m.port => /\ M.path = op1 - of
                             /\ M.path_size = ot - op1 /\ M.path_size # 0
       /\ m.path = m.port => M.path = op - of /\ M.path_size = 0
  BY ONLY <1>9, <1>14b, <1>14c, <1>17
<1>21. /\ m.query > m.path => /\ M.query = ot1 - of /\ M.query # 0
                              /\ M.query_size = oq - ot1 /\ M.query_size # 0
       /\ m.query = m.path => M.query = 0 /\ M.query_size = 0
       /\ m.last > m.query => /\ M.fragment = oq1 - of /\ M.fragment # 0
                              /\ M.fragment_size = ol - oq1 /\ M.fragment_size # 0
       /\ m.last = m.query => M.fragment = 0 /\ M.fragment_size = 0
  BY ONLY <1>9, <1>14d, <1>17
<1> QED
  BY ONLY <1>3, <1>9, <1>18, <1>19, <1>20, <1>21

(* The marks are numbers. *)
LEMMA MarksNat ==
  ASSUME NEW m \in Mark
  PROVE  /\ m.first \in Nat /\ m.scheme \in Nat /\ m.name \in Nat /\ m.at \in Nat
         /\ m.host \in Nat /\ m.port \in Nat /\ m.path \in Nat /\ m.query \in Nat
         /\ m.last \in Nat
         /\ \A f \in Field : After(m)[f] \in Nat
<1>1. /\ m.first \in Nat /\ m.scheme \in Nat /\ m.name \in Nat /\ m.at \in Nat
      /\ m.host \in Nat /\ m.port \in Nat /\ m.path \in Nat /\ m.query \in Nat
      /\ m.last \in Nat
  BY DEF Mark
<1>2. \A f \in Field : After(m)[f] \in Nat
  BY <1>1, FieldsAre DEF After
<1> QED
  BY <1>1, <1>2

(* While a URI is read, no branch but the one its character takes can be taken. *)
LEMMA TheBranch ==
  ASSUME Next, pc = "scan", ~AtEnd, ~Is(" ")
  PROVE  /\ Branch = "scheme" => SchemeEnd
         /\ Branch = "host end" => HostEnd
         /\ Branch = "authority" => Authority
         /\ Branch = "user end" => UserEnd
         /\ Branch = "path end" => PathEnd
         /\ Branch = "query end" => QueryEnd
         /\ Branch = "opaque" => OpaquePath
         /\ Branch = "path" => Path
         /\ Branch = "none" => NoEffect
<1>1. SchemeEnd \/ HostEnd \/ Authority \/ UserEnd \/ PathEnd \/ QueryEnd
      \/ OpaquePath \/ Path \/ NoEffect
  BY DEF Next, SkipSpace, NothingLeft, Begin, Return, CallAgain
<1>2. /\ SchemeEnd => Branch = "scheme"
      /\ HostEnd => Branch = "host end"
      /\ Authority => Branch = "authority"
      /\ UserEnd => Branch = "user end"
      /\ PathEnd => Branch = "path end"
      /\ QueryEnd => Branch = "query end"
      /\ OpaquePath => Branch = "opaque"
      /\ Path => Branch = "path"
      /\ NoEffect => Branch = "none"
  BY DEF SchemeEnd, HostEnd, Authority, UserEnd, PathEnd, QueryEnd, OpaquePath, Path,
         NoEffect, Scan
<1> QED
  BY <1>1, <1>2

(* What the parser knows where it stands. *)
LEMMA Reading ==
  ASSUME NEW o, NEW m, UriOf(text.tokens, o, m), Read(o, m), pos < m.last
  PROVE  /\ pos \in Nat /\ pos \in m.first .. m.last - 1 /\ ~AtEnd
         /\ \A c : Is(c) <=> text.tokens[pos].c = c
         /\ off = o[pos] - o[m.first]
         /\ o[pos] \in Nat /\ o[m.first] \in Nat
<1>1. /\ m \in Mark /\ m.first >= 1
  BY MarksAt
<1>2. m.first \in Nat /\ m.last \in Nat
  BY <1>1, MarksNat
<1>3. pos \in m.first .. m.last /\ off = o[pos] - o[m.first]
  BY DEF Read
<1>4. pos \in m.first .. m.last - 1 /\ pos \in Nat
  BY ONLY <1>1, <1>2, <1>3, pos < m.last
<1>5. pos \in 1 .. Len(text.tokens) /\ Len(text.tokens) \in Nat
  BY <1>4, OffsetsAt
<1>6. ~AtEnd
  BY <1>5 DEF AtEnd
<1>7. o[pos] \in Nat /\ o[m.first] \in Nat
  <2>1. m.first \in m.first .. m.last
    BY ONLY <1>2, <1>4
  <2> QED
    BY <1>3, <2>1, OffsetsAt
<1> QED
  BY <1>3, <1>4, <1>6, <1>7 DEF Is

(* Where a step of the scan leads. *)
LEMMA Moves ==
  ASSUME NEW o, NEW m, UriOf(text.tokens, o, m), Read(o, m), pos < m.last,
         NEW branch, NEW new, NEW n \in {1, 2}, Scan(branch, new, n),
         n = 2 <=> pos = m.scheme + 1 /\ m.name = m.scheme + 3
  PROVE  /\ text' = text /\ pc' = "scan" /\ calls' = calls /\ pos' = pos + n
         /\ uri' = Store(uri, new)
         /\ pos' \in m.first .. m.last /\ (pos' > m.scheme + 1 => pos' >= m.name)
         /\ off' = o[pos'] - o[m.first]
<1>1. /\ pos \in Nat /\ pos \in m.first .. m.last - 1
      /\ off = o[pos] - o[m.first] /\ o[pos] \in Nat /\ o[m.first] \in Nat
  BY Reading
<1>2. /\ m \in Mark /\ m.first >= 1 /\ m.first < m.scheme /\ m.scheme < m.name
      /\ m.name <= m.at + 1 /\ m.at + 1 < m.host /\ m.host <= m.port
      /\ m.port <= m.path /\ m.path <= m.query /\ m.query <= m.last
      /\ o[m.scheme + 1] = o[m.scheme] + 1
      /\ \/ m.name = m.scheme + 1 /\ m.at >= m.name
         \/ m.name = m.scheme + 3 /\ o[m.name] = o[m.scheme] + 3
  BY MarksAt
<1>3. /\ m.first \in Nat /\ m.scheme \in Nat /\ m.name \in Nat /\ m.at \in Nat
      /\ m.host \in Nat /\ m.port \in Nat /\ m.path \in Nat /\ m.query \in Nat
      /\ m.last \in Nat
  BY <1>2, MarksNat
<1>4. /\ uri' = Store(uri, new) /\ pos' = pos + n /\ pc = "scan"
      /\ off' = off + (IF n = 1 THEN text.tokens[pos].n ELSE n)
      /\ UNCHANGED <<text, pc, calls>>
  BY DEF Scan
<1>5. /\ pos + n \in m.first .. m.last
      /\ pos + n > m.scheme + 1 => pos + n >= m.name
  <2>1. pos > m.scheme + 1 => pos >= m.name
    BY DEF Read
  <2>2. n = 1 \/ (n = 2 /\ pos = m.scheme + 1 /\ m.name = m.scheme + 3)
    OBVIOUS
  <2>3. n = 1 => ~(pos = m.scheme + 1 /\ m.name = m.scheme + 3)
    OBVIOUS
  <2>4. m.name = m.scheme + 1 \/ m.name = m.scheme + 3
    BY <1>2
  <2>5. pos + n \in m.first .. m.last
    BY ONLY <1>1, <1>2, <1>3, <2>2
  <2>6. pos + n > m.scheme + 1 => pos + n >= m.name
    BY ONLY <1>1, <1>3, <2>1, <2>2, <2>3, <2>4
  <2> QED
    BY <2>5, <2>6
<1>6. off' = o[pos + n] - o[m.first]
  <2>1. CASE n = 1
    <3>1. o[pos + 1] = o[pos] + text.tokens[pos].n /\ o[pos + 1] \in Nat
      BY <1>1, <1>5, <2>1, OffsetsAt
    <3>2. off' = off + text.tokens[pos].n
      BY <1>4, <2>1
    <3>3. text.tokens[pos].n \in Nat
      BY <1>1, OffsetsAt DEF Token
    <3> QED
      BY ONLY <1>1, <2>1, <3>1, <3>2, <3>3
  <2>2. CASE n = 2
    <3>1. o[pos] = o[m.scheme] + 1 /\ o[pos + 2] = o[m.scheme] + 3
      <4>1. pos = m.scheme + 1 /\ m.name = m.scheme + 3
        BY <2>2
      <4>2. m.scheme + 3 = (m.scheme + 1) + 2 /\ m.name # m.scheme + 1
        BY ONLY <1>3, <4>1
      <4> QED
        BY <1>2, <4>1, <4>2
    <3>2. o[m.scheme] \in Nat
      <4>1. m.scheme \in m.first .. m.last
        BY ONLY <1>2, <1>3
      <4> QED
        BY <4>1, OffsetsAt
    <3>3. off' = off + 2
      BY <1>4, <2>2
    <3> QED
      BY ONLY <1>1, <2>2, <3>1, <3>2, <3>3
  <2> QED
    BY <2>1, <2>2
<1> QED
  BY <1>4, <1>5, <1>6

(* A step of the scan that leaves in each field what is known of it behind the
   tokens it takes. *)
LEMMA ReadsOn ==
  ASSUME NEW o, NEW m, UriOf(text.tokens, o, m), Read(o, m), pos < m.last,
         uri \in [Field -> Nat], NEW branch, NEW new, NEW n \in {1, 2},
         Scan(branch, new, n),
         n = 2 <=> pos = m.scheme + 1 /\ m.name = m.scheme + 3,
         \A f \in Field : IF f \in DOMAIN new
                           THEN new[f] = Known(Meaning(o, m), m, pos + n, f)
                           ELSE uri[f] = Known(Meaning(o, m), m, pos + n, f)
  PROVE  /\ text' = text /\ pc' = "scan" /\ calls' = calls /\ pos' = pos + n
         /\ pos' \in m.first .. m.last /\ (pos' > m.scheme + 1 => pos' >= m.name)
         /\ off' = o[pos'] - o[m.first]
         /\ \A f \in Field : uri'[f] = Known(Meaning(o, m), m, pos', f)
<1>1. /\ text' = text /\ pc' = "scan" /\ calls' = calls /\ pos' = pos + n
      /\ uri' = Store(uri, new)
      /\ pos' \in m.first .. m.last /\ (pos' > m.scheme + 1 => pos' >= m.name)
      /\ off' = o[pos'] - o[m.first]
  BY Moves
<1>2. ASSUME NEW f \in Field PROVE uri'[f] = Known(Meaning(o, m), m, pos + n, f)
  <2>1. PICK M : M = Meaning(o, m)
    OBVIOUS
  <2>2. \A g \in Field : Below(M[g], Room[g])
    BY <2>1, MeaningIs
  <2>3. \A g \in Field : Room[g] \in Nat \ {0}
    BY FieldsAre
  <2>4. \A g \in Field : Below(Known(M, m, pos + n, g), Room[g])
    BY <2>2, <2>3 DEF Known, Below
  <2>5. \A g \in DOMAIN new \cap Field : Below(new[g], Room[g])
    BY <2>1, <2>4
  <2>6. uri'[f] = IF f \in DOMAIN new THEN new[f] ELSE uri[f]
    BY <1>1, <2>5, StoreFits
  <2> QED
    BY <2>6
<1> QED
  BY <1>1, <1>2

(* One token on, only the fields that end there can change what is known. *)
LEMMA KnownNext ==
  ASSUME NEW m \in Mark, NEW u, NEW f \in Field, NEW k \in Nat
  PROVE  /\ After(m)[f] # k => Known(u, m, k + 1, f) = Known(u, m, k, f)
         /\ After(m)[f] = k => Known(u, m, k + 1, f) = u[f] /\ Known(u, m, k, f) = 0
<1>1. After(m)[f] \in Nat
  BY MarksNat
<1>2. /\ After(m)[f] # k => (k + 1 > After(m)[f] <=> k > After(m)[f])
      /\ After(m)[f] = k => k + 1 > After(m)[f] /\ ~(k > After(m)[f])
  BY ONLY <1>1, k \in Nat
<1> QED
  BY <1>2 DEF Known

(* The fields one by one. *)
LEMMA FieldsKnown ==
  ASSUME NEW u, NEW m, NEW M, NEW k, \A f \in Field : u[f] = Known(M, m, k, f)
  PROVE  /\ u.scheme_size = IF k > m.scheme THEN M.scheme_size ELSE 0
         /\ u.userinfo = IF k > m.at THEN M.userinfo ELSE 0
         /\ u.userinfo_size = IF k > m.at THEN M.userinfo_size ELSE 0
         /\ u.host = IF k > m.at THEN M.host ELSE 0
         /\ u.host_size = IF k > m.host THEN M.host_size ELSE 0
         /\ u.port = IF k > m.host THEN M.port ELSE 0
         /\ u.port_size = IF k > m.port THEN M.port_size ELSE 0
         /\ u.path = IF k > m.port THEN M.path ELSE 0
         /\ u.path_size = IF k > m.path THEN M.path_size ELSE 0
         /\ u.query = IF k > m.path THEN M.query ELSE 0
         /\ u.query_size = IF k > m.query THEN M.query_size ELSE 0
         /\ u.fragment = IF k > m.query THEN M.fragment ELSE 0
         /\ u.fragment_size = IF k > m.last THEN M.fragment_size ELSE 0
BY FieldsAre DEF Known, After

(* Away from the user and from the marks a character changes nothing. *)
LEMMA Quiet ==
  ASSUME NEW o, NEW m, UriOf(text.tokens, o, m), Read(o, m), pos < m.last,
         ~(m.name <= pos /\ pos <= m.at),
         pos \notin {m.scheme, m.host, m.port, m.path, m.query},
         ~(pos = m.scheme + 1 /\ m.name = m.scheme + 3)
  PROVE  Branch = "none" /\ ~Is(" ") /\ \A f \in Field : After(m)[f] # pos
<1>1. /\ pos \in Nat /\ pos \in m.first .. m.last - 1 /\ ~AtEnd
      /\ \A c : Is(c) <=> text.tokens[pos].c = c
  BY Reading
<1>2. /\ m \in Mark /\ m.first >= 1 /\ m.first < m.scheme /\ m.scheme < m.name
      /\ m.name <= m.at + 1 /\ m.at + 1 < m.host /\ m.host <= m.port
      /\ m.port <= m.path /\ m.path <= m.query /\ m.query <= m.last
      /\ (m.name = m.scheme + 1 /\ m.at >= m.name) \/ m.name = m.scheme + 3
  BY MarksAt
<1>3. /\ m.first \in Nat /\ m.scheme \in Nat /\ m.name \in Nat /\ m.at \in Nat
      /\ m.host \in Nat /\ m.port \in Nat /\ m.path \in Nat /\ m.query \in Nat
      /\ m.last \in Nat
  BY <1>2, MarksNat
<1>4. pos > m.scheme + 1 => pos >= m.name
  BY DEF Read
<1>5. /\ pos # m.scheme /\ pos # m.host /\ pos # m.port /\ pos # m.path /\ pos # m.query
  OBVIOUS
<1>6. \/ pos < m.scheme
      \/ pos > m.at /\ pos > m.scheme /\ pos < m.port
      \/ pos > m.port
  BY ONLY <1>1, <1>2, <1>3, <1>4, <1>5, ~(m.name <= pos /\ pos <= m.at),
          ~(pos = m.scheme + 1 /\ m.name = m.scheme + 3)
<1>7. \A f \in Field : After(m)[f] # pos
  <2>1. pos # m.at /\ pos # m.last
    BY ONLY <1>1, <1>2, <1>3, <1>6
  <2> QED
    BY <1>5, <2>1, FieldsAre DEF After
<1>8. IsUri(text.tokens, m)
  BY DEF UriOf
<1>9. PICK M : M = Meaning(o, m)
  OBVIOUS
<1>10. \A f \in Field : uri[f] = Known(M, m, pos, f)
  BY <1>9 DEF Read
<1>11. /\ M.scheme_size # 0 /\ M.host # 0 /\ M.host_size # 0 /\ M.path # 0
  BY <1>9, MeaningIs
<1>12. CASE pos < m.scheme
  <2>1. pos \in m.first .. m.scheme - 1
    BY ONLY <1>1, <1>3, <1>12
  <2>2. text.tokens[pos].c = "a"
    BY <1>8, <2>1 DEF IsUri, Only, Name
  <2>3. ~(pos > m.scheme) /\ ~(pos > m.at)
    BY ONLY <1>1, <1>2, <1>3, <1>12
  <2>4. uri.scheme_size = 0 /\ uri.host = 0
    BY <1>10, <2>3, FieldsKnown
  <2>5. ~Is(":") /\ ~Is("/") /\ ~Is("@") /\ ~Is("?") /\ ~Is("#") /\ ~Is(";") /\ ~Is(" ")
    BY <2>2 DEF Is
  <2> QED
    BY ONLY <1>7, <2>4, <2>5 DEF Branch
<1>13. CASE pos > m.at /\ pos > m.scheme /\ pos < m.port
  <2>1. pos \in m.at + 1 .. m.host - 1 \/ pos \in m.host + 1 .. m.port - 1
    BY ONLY <1>1, <1>2, <1>3, <1>5, <1>13
  <2>2. text.tokens[pos].c = "a"
    <3>1. m.port > m.host \/ pos \in m.at + 1 .. m.host - 1
      BY ONLY <1>1, <1>2, <1>3, <2>1
    <3> QED
      BY <1>8, <2>1, <3>1 DEF IsUri, Only, Name
  <2>3. uri.scheme_size # 0 /\ uri.host # 0
    BY <1>10, <1>11, <1>13, FieldsKnown
  <2>5. ~Is(":") /\ ~Is("/") /\ ~Is("@") /\ ~Is("?") /\ ~Is("#") /\ ~Is(";") /\ ~Is(" ")
    BY <2>2 DEF Is
  <2> QED
    BY ONLY <1>7, <2>3, <2>5 DEF Branch
<1>14. CASE pos > m.port
  <2>1. \/ pos \in m.port + 1 .. m.path - 1 /\ m.path > m.port
        \/ pos \in m.path + 1 .. m.query - 1 /\ m.query > m.path
        \/ pos \in m.query + 1 .. m.last - 1 /\ m.last > m.query
    BY ONLY <1>1, <1>2, <1>3, <1>5, <1>14
  <2>2. text.tokens[pos].c \in Inside
    BY <1>8, <2>1 DEF IsUri, Only
  <2>3. pos > m.scheme /\ pos > m.at /\ pos > m.host
    BY ONLY <1>1, <1>2, <1>3, <1>14
  <2>4. uri.scheme_size # 0 /\ uri.host # 0 /\ uri.host_size # 0 /\ uri.path # 0
    BY <1>10, <1>11, <1>14, <2>3, FieldsKnown
  <2>5. ~Is("@") /\ ~Is("?") /\ ~Is("#") /\ ~Is(" ")
    BY <2>2 DEF Is, Inside
  <2> QED
    BY ONLY <1>7, <2>4, <2>5 DEF Branch
<1> QED
  BY <1>6, <1>12, <1>13, <1>14

(* A step over one token that gives each field that ends there what it means. *)
LEMMA MarkTaken ==
  ASSUME NEW o, NEW m, UriOf(text.tokens, o, m), Read(o, m), pos < m.last,
         uri \in [Field -> Nat], NEW branch, NEW new, Scan(branch, new, 1),
         ~(m.name <= pos /\ pos <= m.at),
         ~(pos = m.scheme + 1 /\ m.name = m.scheme + 3),
         \A f \in Field : IF After(m)[f] = pos
                          THEN IF f \in DOMAIN new THEN new[f] = Meaning(o, m)[f]
                               ELSE Meaning(o, m)[f] = 0
                          ELSE f \notin DOMAIN new
  PROVE  /\ text' = text /\ pc' = "scan" /\ calls' = calls /\ pos' = pos + 1
         /\ pos' \in m.first .. m.last /\ (pos' > m.scheme + 1 => pos' >= m.name)
         /\ off' = o[pos'] - o[m.first]
         /\ \A f \in Field : uri'[f] = Known(Meaning(o, m), m, pos', f)
<1>1. m \in Mark /\ pos \in Nat
  BY MarksAt, Reading
<1>2. PICK M : M = Meaning(o, m)
  OBVIOUS
<1>3. \A f \in Field : uri[f] = Known(M, m, pos, f)
  BY <1>2 DEF Read
<1>4. \A f \in Field : IF f \in DOMAIN new THEN new[f] = Known(M, m, pos + 1, f)
                       ELSE uri[f] = Known(M, m, pos + 1, f)
  <2> SUFFICES ASSUME NEW f \in Field
               PROVE  IF f \in DOMAIN new THEN new[f] = Known(M, m, pos + 1, f)
                      ELSE uri[f] = Known(M, m, pos + 1, f)
    OBVIOUS
  <2>1. CASE After(m)[f] = pos
    <3>1. Known(M, m, pos + 1, f) = M[f] /\ uri[f] = 0
      BY <1>1, <1>3, <2>1, KnownNext
    <3> QED
      BY <1>2, <2>1, <3>1
  <2>2. CASE After(m)[f] # pos
    <3>1. Known(M, m, pos + 1, f) = uri[f]
      <4>1. Known(M, m, pos + 1, f) = Known(M, m, pos, f)
        BY <1>1, <2>2, KnownNext, ZenonT(40)
      <4> QED
        BY <1>3, <4>1
    <3> QED
      BY <1>2, <2>2, <3>1
  <2> QED
    BY <2>1, <2>2
<1>5. 1 \in {1, 2} /\ (1 = 2 <=> pos = m.scheme + 1 /\ m.name = m.scheme + 3)
  OBVIOUS
<1> QED
  BY <1>2, <1>4, <1>5, ReadsOn

(* The characters inside a part change nothing. *)
LEMMA QuietKeeps ==
  ASSUME NEW o, NEW m, UriOf(text.tokens, o, m), Read(o, m), pos < m.last,
         uri \in [Field -> Nat], pc = "scan", Next,
         ~(m.name <= pos /\ pos <= m.at),
         pos \notin {m.scheme, m.host, m.port, m.path, m.query},
         ~(pos = m.scheme + 1 /\ m.name = m.scheme + 3)
  PROVE  text' = text /\ pc' = "scan" /\ calls' = calls /\ Read(o, m)'
<1>1. Branch = "none" /\ ~Is(" ") /\ \A f \in Field : After(m)[f] # pos
  BY Quiet
<1>2. ~AtEnd /\ pos \in Nat
  BY Reading
<1>3. Scan("none", Unchanged, 1)
  BY <1>1, <1>2, TheBranch DEF NoEffect
<1>4. DOMAIN Unchanged = {}
  BY DEF Unchanged
<1>5. /\ text' = text /\ pc' = "scan" /\ calls' = calls /\ pos' = pos + 1
      /\ pos' \in m.first .. m.last /\ (pos' > m.scheme + 1 => pos' >= m.name)
      /\ off' = o[pos'] - o[m.first]
      /\ \A f \in Field : uri'[f] = Known(Meaning(o, m), m, pos', f)
  BY <1>1, <1>3, <1>4, MarkTaken
<1>6. ~(m.name <= pos' /\ pos' <= m.at)
  <2>1. /\ m.scheme \in Nat /\ m.name \in Nat /\ m.at \in Nat
        /\ m.name = m.scheme + 1 \/ m.name = m.scheme + 3
    BY MarksAt, MarksNat
  <2>2. pos > m.scheme + 1 => pos >= m.name
    BY DEF Read
  <2>3. pos # m.scheme
    OBVIOUS
  <2> QED
    BY ONLY <1>2, <1>5, <2>1, <2>2, <2>3, ~(m.name <= pos /\ pos <= m.at),
            ~(pos = m.scheme + 1 /\ m.name = m.scheme + 3)
<1> QED
  BY <1>5, <1>6 DEF Read

(* The ":" behind the scheme. *)
LEMMA SchemeKeeps ==
  ASSUME NEW o, NEW m, UriOf(text.tokens, o, m), Read(o, m), pos = m.scheme,
         uri \in [Field -> Nat], pc = "scan", Next
  PROVE  text' = text /\ pc' = "scan" /\ calls' = calls /\ Read(o, m)'
<1>2. /\ m \in Mark /\ m.first >= 1 /\ m.first < m.scheme /\ m.scheme < m.name
      /\ m.name <= m.at + 1 /\ m.at + 1 < m.host /\ m.host <= m.port
      /\ m.port <= m.path /\ m.path <= m.query /\ m.query <= m.last
      /\ (m.name = m.scheme + 1 /\ m.at >= m.name) \/ m.name = m.scheme + 3
  BY MarksAt
<1>3. /\ m.first \in Nat /\ m.scheme \in Nat /\ m.name \in Nat /\ m.at \in Nat
      /\ m.host \in Nat /\ m.port \in Nat /\ m.path \in Nat /\ m.query \in Nat
      /\ m.last \in Nat
  BY <1>2, MarksNat
<1>4. /\ pos < m.last /\ ~(m.name <= pos /\ pos <= m.at) /\ pos # m.scheme + 1
      /\ ~(pos > m.scheme) /\ ~(pos > m.at)
      /\ pos # m.at /\ pos # m.host /\ pos # m.port /\ pos # m.path /\ pos # m.query
      /\ pos # m.last
  BY ONLY <1>2, <1>3, pos = m.scheme
<1>5. PICK M : M = Meaning(o, m)
  OBVIOUS
<1>6. \A f \in Field : uri[f] = Known(M, m, pos, f)
  BY <1>4, <1>5 DEF Read
<1>7. uri.scheme_size = 0
  BY <1>4, <1>6, FieldsKnown
<1>8. text.tokens[pos].c = ":"
  BY DEF UriOf, IsUri
<1>9. ~AtEnd /\ Is(":") /\ ~Is(" ") /\ off = o[pos] - o[m.first]
  BY <1>4, <1>8, Reading DEF Is
<1>10. Branch = "scheme"
  BY ONLY <1>7, <1>9 DEF Branch
<1>11. PICK new : new = [scheme_size |-> off]
  OBVIOUS
<1>12. Scan("scheme", new, 1)
  BY <1>9, <1>10, <1>11, TheBranch DEF SchemeEnd
<1>13. DOMAIN new = {"scheme_size"} /\ new["scheme_size"] = M["scheme_size"]
  <2>1. M.scheme_size = off
    <3>1. M.scheme_size = o[m.scheme] - o[m.first]
      BY <1>5, MeaningIs
    <3> QED
      BY ONLY <1>9, <3>1, pos = m.scheme
  <2> QED
    BY <1>11, <2>1
<1>14. \A f \in Field : After(m)[f] = pos <=> f = "scheme_size"
  BY <1>4, FieldsAre DEF After
<1>15. /\ text' = text /\ pc' = "scan" /\ calls' = calls /\ pos' = pos + 1
       /\ pos' \in m.first .. m.last /\ (pos' > m.scheme + 1 => pos' >= m.name)
       /\ off' = o[pos'] - o[m.first]
       /\ \A f \in Field : uri'[f] = Known(M, m, pos', f)
  BY <1>4, <1>5, <1>12, <1>13, <1>14, MarkTaken
<1>16. CASE m.name <= pos' /\ pos' <= m.at
  <2>1. /\ m.name = m.scheme + 1 /\ ~(pos' > m.name) /\ ~(pos' > m.at) /\ ~(pos' > m.host)
        /\ ~(pos' > m.port)
    BY ONLY <1>2, <1>3, <1>15, <1>16, pos = m.scheme
  <2>2. uri'.host = 0 /\ uri'.host_size = 0 /\ uri'.port = 0 /\ uri'.path = 0
    BY <1>15, <2>1, FieldsKnown
  <2>3. UserRead(o, m)'
    BY <1>5, <1>15, <2>1, <2>2 DEF UserRead
  <2> QED
    BY <1>15, <1>16, <2>3 DEF Read
<1>17. CASE ~(m.name <= pos' /\ pos' <= m.at)
  BY <1>5, <1>15, <1>17 DEF Read
<1> QED
  BY <1>15, <1>16, <1>17

(* The "//": what is behind it is taken for a host. *)
LEMMA AuthorityKeepsRead ==
  ASSUME NEW o, NEW m, UriOf(text.tokens, o, m), Read(o, m),
         pos = m.scheme + 1, m.name = m.scheme + 3,
         uri \in [Field -> Nat], pc = "scan", Next
  PROVE  text' = text /\ pc' = "scan" /\ calls' = calls /\ Read(o, m)'
<1>2. /\ m \in Mark /\ m.first >= 1 /\ m.first < m.scheme
      /\ m.name <= m.at + 1 /\ m.at + 1 < m.host /\ m.host <= m.port
      /\ m.port <= m.path /\ m.path <= m.query /\ m.query <= m.last
      /\ o[m.scheme + 1] = o[m.scheme] + 1 /\ o[m.name] = o[m.scheme] + 3
  <2>1. m.scheme \in Nat
    BY MarksAt, MarksNat
  <2>2. m.name # m.scheme + 1
    BY ONLY <2>1, m.name = m.scheme + 3
  <2> QED
    BY <2>2, MarksAt
<1>3. /\ m.first \in Nat /\ m.scheme \in Nat /\ m.name \in Nat /\ m.at \in Nat
      /\ m.host \in Nat /\ m.port \in Nat /\ m.path \in Nat /\ m.query \in Nat
      /\ m.last \in Nat
  BY <1>2, MarksNat
<1>4. /\ pos < m.last /\ ~(m.name <= pos /\ pos <= m.at)
      /\ pos > m.scheme /\ ~(pos > m.at) /\ ~(pos > m.port)
      /\ pos \in m.scheme + 1 .. m.name - 1 /\ pos + 1 \in m.scheme + 1 .. m.name - 1
      /\ pos + 2 = m.name /\ pos + 1 <= m.last - 1 /\ pos + 1 >= m.first
  BY ONLY <1>2, <1>3, pos = m.scheme + 1, m.name = m.scheme + 3
<1>5. PICK M : M = Meaning(o, m)
  OBVIOUS
<1>6. \A f \in Field : uri[f] = Known(M, m, pos, f)
  BY <1>4, <1>5 DEF Read
<1>7. uri.scheme_size # 0 /\ uri.path = 0
  <2>1. M.scheme_size # 0
    BY <1>5, MeaningIs
  <2> QED
    BY <1>4, <1>6, <2>1, FieldsKnown
<1>8. text.tokens[pos].c = "/" /\ text.tokens[pos + 1].c = "/"
  <2>1. Only(text.tokens, m.scheme + 1, m.name, {"/"})
    <3>1. m.name # m.scheme + 1
      BY ONLY <1>3, m.name = m.scheme + 3
    <3> QED
      BY <3>1 DEF UriOf, IsUri
  <2> QED
    BY <1>4, <2>1 DEF Only
<1>9. /\ ~AtEnd /\ Is("/") /\ ~Is(":") /\ ~Is(" ") /\ off = o[pos] - o[m.first]
      /\ o[pos] \in Nat /\ o[m.first] \in Nat
  BY <1>4, <1>8, Reading DEF Is
<1>10. SlashFollows
  <2>1. pos + 1 \in m.first .. m.last - 1
    BY ONLY <1>3, <1>4
  <2>2. pos + 1 \in 1 .. Len(text.tokens) /\ Len(text.tokens) \in Nat
    BY <2>1, OffsetsAt
  <2>3. pos < Len(text.tokens)
    BY ONLY <1>3, <2>2, pos = m.scheme + 1
  <2> QED
    BY <1>8, <2>3 DEF SlashFollows
<1>11. Branch = "authority"
  BY ONLY <1>7, <1>9, <1>10 DEF Branch
<1>12. PICK new : new = [host |-> off + 2]
  OBVIOUS
<1>13. Scan("authority", new, 2)
  BY <1>9, <1>11, <1>12, TheBranch DEF Authority
<1>14. DOMAIN new = {"host"} /\ new["host"] = o[m.name] - o[m.first]
  <2>1. off + 2 = o[m.name] - o[m.first]
    <3>1. o[pos] = o[m.scheme] + 1
      BY <1>2
    <3>2. o[m.scheme] \in Nat
      <4>1. m.scheme \in m.first .. m.last
        BY ONLY <1>2, <1>3, m.name = m.scheme + 3
      <4> QED
        BY <4>1, OffsetsAt
    <3>3. o[m.name] = o[m.scheme] + 3
      BY <1>2
    <3>4. off = o[pos] - o[m.first] /\ o[m.first] \in Nat
      BY <1>9
    <3> QED
      BY ONLY <3>1, <3>2, <3>3, <3>4
  <2> QED
    BY <1>12, <2>1
<1>15. /\ text' = text /\ pc' = "scan" /\ calls' = calls /\ pos' = m.name
       /\ uri' = Store(uri, new)
       /\ pos' \in m.first .. m.last /\ (pos' > m.scheme + 1 => pos' >= m.name)
       /\ off' = o[pos'] - o[m.first]
  <2>1. 2 \in {1, 2} /\ (2 = 2 <=> pos = m.scheme + 1 /\ m.name = m.scheme + 3)
    OBVIOUS
  <2> QED
    BY <1>4, <1>13, <2>1, Moves
<1>16. Below(o[m.name] - o[m.first], Room["host"])
  <2>1. CASE m.at >= m.name
    <3>1. M.userinfo = o[m.name] - o[m.first] /\ Below(M["userinfo"], Room["userinfo"])
      <4>1. "userinfo" \in Field
        BY FieldsAre
      <4> QED
        BY <1>5, <2>1, <4>1, MeaningIs
    <3> QED
      BY <3>1 DEF Below, Room
  <2>2. CASE ~(m.at >= m.name)
    <3>1. m.at + 1 = m.name
      BY ONLY <1>2, <1>3, <2>2
    <3>2. M.host = o[m.name] - o[m.first] /\ Below(M["host"], Room["host"])
      <4>1. "host" \in Field
        BY FieldsAre
      <4> QED
        BY <1>5, <3>1, <4>1, MeaningIs
    <3> QED
      BY <3>2
  <2> QED
    BY <2>1, <2>2
<1>17. \A f \in Field : uri'[f] = IF f = "host" THEN o[m.name] - o[m.first] ELSE uri[f]
  <2>1. \A f \in DOMAIN new \cap Field : Below(new[f], Room[f])
    BY <1>14, <1>16
  <2> QED
    BY <1>14, <1>15, <2>1, StoreFits
<1>18. \A f \in Field \ {"host"} : uri'[f] = Known(M, m, m.name, f)
  <2> SUFFICES ASSUME NEW f \in Field \ {"host"}
               PROVE  Known(M, m, pos, f) = Known(M, m, m.name, f)
    BY <1>6, <1>17
  <2>1. \/ After(m)[f] = m.scheme
        \/ After(m)[f] = m.at /\ f \in {"userinfo", "userinfo_size"}
        \/ After(m)[f] \in {m.host, m.port, m.path, m.query, m.last}
    BY FieldsAre DEF After
  <2>2. CASE After(m)[f] = m.at /\ f \in {"userinfo", "userinfo_size"} /\ m.name > m.at
    <3>1. m.at < m.name
      BY ONLY <1>3, <2>2
    <3>2. M.userinfo = 0 /\ M.userinfo_size = 0
      BY <1>5, <3>1, MeaningIs
    <3>3. M[f] = 0
      BY <2>2, <3>2
    <3> QED
      BY <3>3 DEF Known
  <2>3. CASE ~(After(m)[f] = m.at /\ f \in {"userinfo", "userinfo_size"} /\ m.name > m.at)
    <3>1. m.name > After(m)[f] <=> pos > After(m)[f]
      BY ONLY <1>2, <1>3, <1>4, <2>1, <2>3
    <3> QED
      BY <3>1 DEF Known
  <2> QED
    BY <2>2, <2>3
<1>19. CASE m.at >= m.name
  <2>1. /\ "host" \in Field /\ "path" \in Field /\ "host_size" \in Field
        /\ Field \ Unsure \subseteq Field \ {"host"}
    BY FieldsAre DEF Unsure
  <2>2. /\ uri'["host"] = o[m.name] - o[m.first]
        /\ uri'["path"] = Known(M, m, m.name, "path")
        /\ uri'["host_size"] = Known(M, m, m.name, "host_size")
    BY <1>17, <1>18, <2>1
  <2>3. ~(m.name > m.port) /\ ~(m.name > m.host)
    BY ONLY <1>2, <1>3, <1>19
  <2>4. uri'.path = 0 /\ uri'.host_size = 0
    BY <2>2, <2>3 DEF Known, After
  <2>5. UserRead(o, m)'
    BY <1>5, <1>15, <1>18, <2>1, <2>2, <2>4 DEF UserRead
  <2>6. m.name <= pos' /\ pos' <= m.at
    BY ONLY <1>3, <1>15, <1>19
  <2> QED
    BY <1>15, <2>5, <2>6 DEF Read
<1>20. CASE ~(m.at >= m.name)
  <2>1. m.at + 1 = m.name /\ m.name > m.at /\ ~(m.name <= pos' /\ pos' <= m.at)
    BY ONLY <1>2, <1>3, <1>15, <1>20
  <2>2. Known(M, m, m.name, "host") = o[m.name] - o[m.first]
    <3>1. M.host = o[m.name] - o[m.first]
      BY <1>5, <2>1, MeaningIs
    <3> QED
      BY <2>1, <3>1 DEF Known, After
  <2>3. \A f \in Field : uri'[f] = Known(M, m, pos', f)
    BY <1>15, <1>17, <1>18, <2>2
  <2> QED
    BY <1>5, <1>15, <2>1, <2>3 DEF Read
<1> QED
  BY <1>15, <1>19, <1>20

(* A mark behind the user, and the step over it. *)
LEMMA MarkKeeps ==
  ASSUME NEW o, NEW m, UriOf(text.tokens, o, m), Read(o, m),
         pos \in {m.host, m.port, m.path, m.query}, pos < m.last,
         uri \in [Field -> Nat], NEW branch, NEW new, Scan(branch, new, 1),
         \A f \in Field : IF After(m)[f] = pos
                          THEN IF f \in DOMAIN new THEN new[f] = Meaning(o, m)[f]
                               ELSE Meaning(o, m)[f] = 0
                          ELSE f \notin DOMAIN new
  PROVE  text' = text /\ pc' = "scan" /\ calls' = calls /\ Read(o, m)'
<1>1. /\ m \in Mark /\ m.scheme < m.name
      /\ m.name <= m.at + 1 /\ m.at + 1 < m.host /\ m.host <= m.port
      /\ m.port <= m.path /\ m.path <= m.query
  BY MarksAt
<1>2. /\ m.scheme \in Nat /\ m.name \in Nat /\ m.at \in Nat /\ m.host \in Nat
      /\ m.port \in Nat /\ m.path \in Nat /\ m.query \in Nat
  BY <1>1, MarksNat
<1>3. pos > m.at /\ pos > m.scheme + 1 /\ ~(m.name <= pos /\ pos <= m.at)
  <2>1. pos = m.host \/ pos = m.port \/ pos = m.path \/ pos = m.query
    OBVIOUS
  <2> QED
    BY ONLY <1>1, <1>2, <2>1
<1>4. pos # m.scheme + 1
  BY ONLY <1>2, <1>3
<1>5. /\ text' = text /\ pc' = "scan" /\ calls' = calls /\ pos' = pos + 1
      /\ pos' \in m.first .. m.last /\ (pos' > m.scheme + 1 => pos' >= m.name)
      /\ off' = o[pos'] - o[m.first]
      /\ \A f \in Field : uri'[f] = Known(Meaning(o, m), m, pos', f)
  BY <1>3, <1>4, MarkTaken
<1>6. ~(m.name <= pos' /\ pos' <= m.at)
  <2>1. pos \in Nat
    BY Reading
  <2> QED
    BY ONLY <1>2, <1>3, <1>5, <2>1
<1> QED
  BY <1>5, <1>6 DEF Read

(* What is known at such a mark. *)
LEMMA AtMark ==
  ASSUME NEW o, NEW m, UriOf(text.tokens, o, m), Read(o, m),
         pos \in {m.host, m.port, m.path, m.query}, pos < m.last,
         NEW M, M = Meaning(o, m)
  PROVE  /\ \A f \in Field : uri[f] = Known(M, m, pos, f)
         /\ uri.scheme_size = M.scheme_size /\ M.scheme_size # 0
         /\ uri.host = M.host /\ M.host # 0
         /\ ~AtEnd /\ off = o[pos] - o[m.first]
         /\ o[pos] \in Nat /\ o[m.first] \in Nat /\ o[m.at + 1] \in Nat
         /\ m \in Mark /\ pos \in Nat
<1>1. /\ m \in Mark /\ m.first >= 1 /\ m.first < m.scheme /\ m.scheme < m.name
      /\ m.name <= m.at + 1 /\ m.at + 1 < m.host /\ m.host <= m.port
      /\ m.port <= m.path /\ m.path <= m.query /\ m.query <= m.last
  BY MarksAt
<1>2. /\ m.first \in Nat /\ m.scheme \in Nat /\ m.name \in Nat /\ m.at \in Nat
      /\ m.host \in Nat /\ m.port \in Nat /\ m.path \in Nat /\ m.query \in Nat
      /\ m.last \in Nat
  BY <1>1, MarksNat
<1>3. pos > m.at /\ pos > m.scheme /\ ~(m.name <= pos /\ pos <= m.at)
  <2>1. pos = m.host \/ pos = m.port \/ pos = m.path \/ pos = m.query
    OBVIOUS
  <2> QED
    BY ONLY <1>1, <1>2, <2>1
<1>4. \A f \in Field : uri[f] = Known(M, m, pos, f)
  BY <1>3 DEF Read
<1>5. uri.scheme_size = M.scheme_size /\ uri.host = M.host
  BY <1>3, <1>4, FieldsKnown
<1>6. M.scheme_size # 0 /\ M.host # 0
  BY MeaningIs
<1>7. o[m.at + 1] \in Nat
  <2>1. m.at + 1 \in m.first .. m.last
    BY ONLY <1>1, <1>2
  <2> QED
    BY <2>1, OffsetsAt
<1> QED
  BY <1>1, <1>4, <1>5, <1>6, <1>7, Reading

(* The ":" behind the host. *)
LEMMA HostKeeps ==
  ASSUME NEW o, NEW m, UriOf(text.tokens, o, m), Read(o, m),
         pos = m.host, m.host < m.port,
         uri \in [Field -> Nat], pc = "scan", Next
  PROVE  text' = text /\ pc' = "scan" /\ calls' = calls /\ Read(o, m)'
<1>1. /\ m \in Mark /\ m.first >= 1 /\ m.first < m.scheme /\ m.scheme < m.name
      /\ m.name <= m.at + 1 /\ m.at + 1 < m.host /\ m.host <= m.port
      /\ m.port <= m.path /\ m.path <= m.query /\ m.query <= m.last
  BY MarksAt
<1>2. /\ m.first \in Nat /\ m.scheme \in Nat /\ m.name \in Nat /\ m.at \in Nat
      /\ m.host \in Nat /\ m.port \in Nat /\ m.path \in Nat /\ m.query \in Nat
      /\ m.last \in Nat
  BY <1>1, MarksNat
<1>3. /\ pos < m.last /\ ~(pos > m.host) /\ ~(pos > m.port) /\ m.port > m.host
      /\ pos # m.scheme /\ pos # m.at /\ pos # m.port /\ pos # m.path /\ pos # m.query
      /\ pos # m.last
  BY ONLY <1>1, <1>2, pos = m.host, m.host < m.port
<1>4. PICK M : M = Meaning(o, m)
  OBVIOUS
<1>5. /\ \A f \in Field : uri[f] = Known(M, m, pos, f)
      /\ uri.scheme_size # 0 /\ uri.host # 0 /\ uri.host = M.host
      /\ ~AtEnd /\ off = o[pos] - o[m.first]
      /\ o[pos] \in Nat /\ o[m.first] \in Nat /\ o[m.at + 1] \in Nat
  BY <1>3, <1>4, AtMark
<1>6. uri.host_size = 0 /\ uri.port_size = 0
  BY <1>3, <1>5, FieldsKnown
<1>7. text.tokens[pos].c = ":"
  BY <1>3 DEF UriOf, IsUri
<1>8. Is(":") /\ ~Is(" ")
  BY <1>5, <1>7 DEF Is
<1>9. Branch = "host end"
  BY ONLY <1>5, <1>6, <1>8 DEF Branch
<1>10. PICK new : new = [host_size |-> off - uri.host, port |-> off + 1]
  OBVIOUS
<1>11. Scan("host end", new, 1)
  BY <1>5, <1>8, <1>9, <1>10, TheBranch DEF HostEnd
<1>12. /\ DOMAIN new = {"host_size", "port"}
       /\ new["host_size"] = M["host_size"] /\ new["port"] = M["port"]
  <2>1. /\ M.host = o[m.at + 1] - o[m.first] /\ M.host_size = o[m.host] - o[m.at + 1]
        /\ M.port = o[m.host + 1] - o[m.first]
    BY <1>3, <1>4, MeaningIs
  <2>2. o[m.host + 1] = o[m.host] + 1
    BY <1>3, MarksAt
  <2>3. off - uri.host = M.host_size /\ off + 1 = M.port
    BY ONLY <1>5, <2>1, <2>2, pos = m.host
  <2> QED
    BY <1>10, <2>3
<1>13. \A f \in Field : After(m)[f] = pos <=> f \in {"host_size", "port"}
  BY <1>3, FieldsAre DEF After
<1> QED
  BY <1>3, <1>4, <1>11, <1>12, <1>13, MarkKeeps

(* The "/" or ";" before the path. *)
LEMMA PortKeeps ==
  ASSUME NEW o, NEW m, UriOf(text.tokens, o, m), Read(o, m),
         pos = m.port, m.port < m.path,
         uri \in [Field -> Nat], pc = "scan", Next
  PROVE  text' = text /\ pc' = "scan" /\ calls' = calls /\ Read(o, m)'
<1>1. /\ m \in Mark /\ m.first >= 1 /\ m.first < m.scheme /\ m.scheme < m.name
      /\ m.name <= m.at + 1 /\ m.at + 1 < m.host /\ m.host <= m.port
      /\ m.port <= m.path /\ m.path <= m.query /\ m.query <= m.last
  BY MarksAt
<1>2. /\ m.first \in Nat /\ m.scheme \in Nat /\ m.name \in Nat /\ m.at \in Nat
      /\ m.host \in Nat /\ m.port \in Nat /\ m.path \in Nat /\ m.query \in Nat
      /\ m.last \in Nat
  BY <1>1, MarksNat
<1>3. /\ pos < m.last /\ ~(pos > m.port) /\ m.path > m.port
      /\ pos # m.scheme /\ pos # m.at /\ pos # m.path /\ pos # m.query
      /\ pos # m.last /\ (pos > m.host <=> m.port > m.host)
      /\ (m.port > m.host \/ m.port = m.host)
  BY ONLY <1>1, <1>2, pos = m.port, m.port < m.path
<1>4. PICK M : M = Meaning(o, m)
  OBVIOUS
<1>5. /\ \A f \in Field : uri[f] = Known(M, m, pos, f)
      /\ uri.scheme_size # 0 /\ uri.host # 0 /\ uri.host = M.host
      /\ ~AtEnd /\ off = o[pos] - o[m.first]
      /\ o[pos] \in Nat /\ o[m.first] \in Nat /\ o[m.at + 1] \in Nat
  BY <1>3, <1>4, AtMark
<1>6. /\ uri.path = 0
      /\ uri.port = IF m.port > m.host THEN M.port ELSE 0
  <2>0. \A f \in Field : uri[f] = Known(M, m, pos, f)
    BY <1>5
  <2>1. /\ uri.path = IF pos > m.port THEN M.path ELSE 0
        /\ uri.port = IF pos > m.host THEN M.port ELSE 0
    BY ONLY <2>0, FieldsKnown
  <2> QED
    BY ONLY <1>3, <2>1
<1>7. text.tokens[pos].c \in {"/", ";"} /\ text.tokens[pos + 1].c # "/"
  BY <1>3 DEF UriOf, IsUri
<1>8. /\ Is("/") \/ Is(";")
      /\ ~Is(" ") /\ ~Is(":") /\ ~Is("@") /\ ~Is("?") /\ ~Is("#") /\ ~SlashFollows
  BY <1>5, <1>7 DEF Is, SlashFollows
<1>9. Branch = "path"
  BY ONLY <1>5, <1>6, <1>8 DEF Branch
<1>10. PICK new : new = And([path |-> off + 1], HostOrPort)
  OBVIOUS
<1>11. Scan("path", new, 1)
  BY <1>5, <1>8, <1>9, <1>10, TheBranch DEF Path
<1>12. M.path = off + 1
  <2>1. M.path = o[m.port + 1] - o[m.first]
    BY <1>3, <1>4, MeaningIs
  <2>2. o[m.port + 1] = o[m.port] + 1
    BY <1>3, MarksAt
  <2> QED
    BY ONLY <1>5, <2>1, <2>2, pos = m.port
<1>13. \A f \in Field : After(m)[f] = pos <=>
         f \in {"port_size", "path"} \/ (m.port = m.host /\ f \in {"host_size", "port"})
  BY <1>3, FieldsAre, pos = m.port DEF After
<1>14. CASE m.port > m.host
  <2>1. uri.port = M.port /\ M.port # 0
    BY <1>4, <1>6, <1>14, MeaningIs
  <2>2. HostOrPort = [port_size |-> off - uri.port]
    BY <2>1 DEF HostOrPort
  <2>3. off - uri.port = M.port_size
    <3>1. M.port = o[m.host + 1] - o[m.first] /\ M.port_size = o[m.port] - o[m.host + 1]
      BY <1>4, <1>14, MeaningIs
    <3>2. o[m.host + 1] = o[m.host] + 1 /\ o[m.host] \in Nat
      <4>1. m.host \in m.first .. m.last
        BY ONLY <1>1, <1>2
      <4> QED
        BY <1>14, <4>1, MarksAt, OffsetsAt
    <3> QED
      BY ONLY <1>5, <2>1, <3>1, <3>2, pos = m.port
  <2>4. /\ DOMAIN new = {"path", "port_size"}
        /\ new["path"] = M["path"] /\ new["port_size"] = M["port_size"]
    BY <1>10, <1>12, <2>2, <2>3 DEF And
  <2>5. m.port # m.host
    BY ONLY <1>2, <1>14
  <2> QED
    BY <1>3, <1>4, <1>11, <1>13, <2>4, <2>5, MarkKeeps
<1>15. CASE m.port = m.host
  <2>1. uri.port = 0
    BY ONLY <1>2, <1>6, <1>15
  <2>2. HostOrPort = [host_size |-> off - uri.host]
    BY <2>1 DEF HostOrPort
  <2>3. off - uri.host = M.host_size /\ M.port = 0 /\ M.port_size = 0
    <3>1. /\ M.host = o[m.at + 1] - o[m.first] /\ M.host_size = o[m.host] - o[m.at + 1]
          /\ M.port = 0 /\ M.port_size = 0
      BY <1>4, <1>15, MeaningIs
    <3> QED
      BY ONLY <1>5, <1>15, <3>1, pos = m.port
  <2>4. /\ DOMAIN new = {"path", "host_size"}
        /\ new["path"] = M["path"] /\ new["host_size"] = M["host_size"]
    BY <1>10, <1>12, <2>2, <2>3 DEF And
  <2> QED
    BY <1>3, <1>4, <1>11, <1>13, <1>15, <2>3, <2>4, MarkKeeps
<1> QED
  BY <1>3, <1>14, <1>15

(* The "?" before the query. *)
LEMMA PathKeeps ==
  ASSUME NEW o, NEW m, UriOf(text.tokens, o, m), Read(o, m),
         pos = m.path, m.path < m.query,
         uri \in [Field -> Nat], pc = "scan", Next
  PROVE  text' = text /\ pc' = "scan" /\ calls' = calls /\ Read(o, m)'
<1>1. /\ m \in Mark /\ m.first >= 1 /\ m.first < m.scheme /\ m.scheme < m.name
      /\ m.name <= m.at + 1 /\ m.at + 1 < m.host /\ m.host <= m.port
      /\ m.port <= m.path /\ m.path <= m.query /\ m.query <= m.last
      /\ m.path = m.port => m.last = m.port
  BY MarksAt
<1>2. /\ m.first \in Nat /\ m.scheme \in Nat /\ m.name \in Nat /\ m.at \in Nat
      /\ m.host \in Nat /\ m.port \in Nat /\ m.path \in Nat /\ m.query \in Nat
      /\ m.last \in Nat
  BY <1>1, MarksNat
<1>3. /\ pos < m.last /\ pos > m.port /\ m.path > m.port /\ m.query > m.path
      /\ pos > m.host
      /\ pos # m.scheme /\ pos # m.at /\ pos # m.host /\ pos # m.port /\ pos # m.query
      /\ pos # m.last
  BY ONLY <1>1, <1>2, pos = m.path, m.path < m.query
<1>4. PICK M : M = Meaning(o, m)
  OBVIOUS
<1>5. /\ \A f \in Field : uri[f] = Known(M, m, pos, f)
      /\ uri.scheme_size # 0
      /\ ~AtEnd /\ off = o[pos] - o[m.first]
      /\ o[pos] \in Nat /\ o[m.first] \in Nat
  BY <1>3, <1>4, AtMark
<1>6. uri.path = M.path /\ M.path # 0
  BY <1>3, <1>4, <1>5, FieldsKnown, MeaningIs
<1>7. text.tokens[pos].c = "?"
  BY <1>3 DEF UriOf, IsUri
<1>8. Is("?") /\ ~Is(" ") /\ ~Is(":") /\ ~Is("/") /\ ~Is("@")
  BY <1>5, <1>7 DEF Is
<1>9. Branch = "path end"
  BY ONLY <1>8 DEF Branch
<1>10. PICK new : new = And([query |-> off + 1], PathClosed)
  OBVIOUS
<1>11. Scan("path end", new, 1)
  BY <1>5, <1>8, <1>9, <1>10, TheBranch DEF PathEnd
<1>12. M.query = off + 1
  <2>1. M.query = o[m.path + 1] - o[m.first]
    BY <1>3, <1>4, MeaningIs
  <2>2. o[m.path + 1] = o[m.path] + 1
    BY <1>3, MarksAt
  <2> QED
    BY ONLY <1>5, <2>1, <2>2, pos = m.path
<1>13. M.path_size = off - uri.path
  <2>1. M.path = o[m.port + 1] - o[m.first] /\ M.path_size = o[m.path] - o[m.port + 1]
    BY <1>3, <1>4, MeaningIs
  <2>2. o[m.port + 1] = o[m.port] + 1 /\ o[m.port] \in Nat
    <3>1. m.port \in m.first .. m.last
      BY ONLY <1>1, <1>2
    <3> QED
      BY <1>3, <3>1, MarksAt, OffsetsAt
  <2> QED
    BY ONLY <1>5, <1>6, <2>1, <2>2, pos = m.path
<1>14. /\ DOMAIN new = {"query", "path_size"}
       /\ new["query"] = M["query"] /\ new["path_size"] = M["path_size"]
  <2>1. PathClosed = [path_size |-> off - uri.path]
    BY <1>6 DEF PathClosed
  <2> QED
    BY <1>10, <1>12, <1>13, <2>1 DEF And
<1>15. \A f \in Field : After(m)[f] = pos <=> f \in {"path_size", "query"}
  BY <1>3, FieldsAre DEF After
<1> QED
  BY <1>3, <1>4, <1>11, <1>14, <1>15, MarkKeeps

(* The "#" before the fragment. *)
LEMMA QueryKeeps ==
  ASSUME NEW o, NEW m, UriOf(text.tokens, o, m), Read(o, m),
         pos = m.query, m.query < m.last,
         uri \in [Field -> Nat], pc = "scan", Next
  PROVE  text' = text /\ pc' = "scan" /\ calls' = calls /\ Read(o, m)'
<1>1. /\ m \in Mark /\ m.first >= 1 /\ m.first < m.scheme /\ m.scheme < m.name
      /\ m.name <= m.at + 1 /\ m.at + 1 < m.host /\ m.host <= m.port
      /\ m.port <= m.path /\ m.path <= m.query /\ m.query <= m.last
      /\ m.path = m.port => m.last = m.port
  BY MarksAt
<1>2. /\ m.first \in Nat /\ m.scheme \in Nat /\ m.name \in Nat /\ m.at \in Nat
      /\ m.host \in Nat /\ m.port \in Nat /\ m.path \in Nat /\ m.query \in Nat
      /\ m.last \in Nat
  BY <1>1, MarksNat
<1>3. /\ pos < m.last /\ pos > m.port /\ m.path > m.port /\ m.last > m.query
      /\ pos > m.host
      /\ pos # m.scheme /\ pos # m.at /\ pos # m.host /\ pos # m.port
      /\ pos # m.last
      /\ (m.query > m.path \/ m.query = m.path) /\ (pos > m.path <=> m.query > m.path)
  BY ONLY <1>1, <1>2, pos = m.query, m.query < m.last
<1>4. PICK M : M = Meaning(o, m)
  OBVIOUS
<1>5. /\ \A f \in Field : uri[f] = Known(M, m, pos, f)
      /\ uri.scheme_size # 0
      /\ ~AtEnd /\ off = o[pos] - o[m.first]
      /\ o[pos] \in Nat /\ o[m.first] \in Nat
  BY <1>3, <1>4, AtMark
<1>6. /\ uri.path = M.path /\ M.path # 0
      /\ uri.query = IF m.query > m.path THEN M.query ELSE 0
  <2>1. /\ uri.path = IF pos > m.port THEN M.path ELSE 0
        /\ uri.query = IF pos > m.path THEN M.query ELSE 0
    BY <1>5, FieldsKnown
  <2>2. M.path # 0
    BY <1>4, MeaningIs
  <2> QED
    BY ONLY <1>3, <2>1, <2>2
<1>7. text.tokens[pos].c = "#"
  BY <1>3 DEF UriOf, IsUri
<1>8. Is("#") /\ ~Is(" ") /\ ~Is(":") /\ ~Is("/") /\ ~Is("@") /\ ~Is("?")
  BY <1>5, <1>7 DEF Is
<1>9. Branch = "query end"
  BY ONLY <1>8 DEF Branch
<1>10. PICK rest : rest = IF uri.query # 0 THEN [query_size |-> off - uri.query]
                          ELSE PathClosed
  OBVIOUS
<1>10a. PICK new : new = And([fragment |-> off + 1], rest)
  OBVIOUS
<1>11. Scan("query end", new, 1)
  BY <1>5, <1>8, <1>9, <1>10, <1>10a, TheBranch DEF QueryEnd
<1>12. M.fragment = off + 1
  <2>1. M.fragment = o[m.query + 1] - o[m.first]
    BY <1>3, <1>4, MeaningIs
  <2>2. o[m.query + 1] = o[m.query] + 1
    BY <1>3, MarksAt
  <2> QED
    BY ONLY <1>5, <2>1, <2>2, pos = m.query
<1>13. \A f \in Field : After(m)[f] = pos <=>
         f \in {"query_size", "fragment"} \/ (m.query = m.path /\ f \in {"path_size", "query"})
  BY <1>3, FieldsAre, pos = m.query DEF After
<1>14. CASE m.query > m.path
  <2>1. uri.query = M.query /\ M.query # 0
    BY <1>4, <1>6, <1>14, MeaningIs
  <2>2. off - uri.query = M.query_size
    <3>1. M.query = o[m.path + 1] - o[m.first] /\ M.query_size = o[m.query] - o[m.path + 1]
      BY <1>4, <1>14, MeaningIs
    <3>2. o[m.path + 1] = o[m.path] + 1 /\ o[m.path] \in Nat
      <4>1. m.path \in m.first .. m.last
        BY ONLY <1>1, <1>2
      <4> QED
        BY <1>14, <4>1, MarksAt, OffsetsAt
    <3> QED
      BY ONLY <1>5, <2>1, <3>1, <3>2, pos = m.query
  <2>3. /\ DOMAIN new = {"fragment", "query_size"}
        /\ new["fragment"] = M["fragment"] /\ new["query_size"] = M["query_size"]
    BY <1>10, <1>10a, <1>12, <2>1, <2>2 DEF And
  <2>4. m.query # m.path
    BY ONLY <1>2, <1>14
  <2> QED
    BY <1>3, <1>4, <1>11, <1>13, <2>3, <2>4, MarkKeeps
<1>15. CASE m.query = m.path
  <2>1. uri.query = 0
    BY ONLY <1>2, <1>6, <1>15
  <2>2. rest = [path_size |-> off - uri.path]
    BY <1>6, <1>10, <2>1 DEF PathClosed
  <2>3. off - uri.path = M.path_size /\ M.query = 0 /\ M.query_size = 0
    <3>1. /\ M.path = o[m.port + 1] - o[m.first] /\ M.path_size = o[m.path] - o[m.port + 1]
          /\ M.query = 0 /\ M.query_size = 0
      BY <1>3, <1>4, <1>15, MeaningIs
    <3>2. o[m.port + 1] = o[m.port] + 1 /\ o[m.port] \in Nat
      <4>1. m.port \in m.first .. m.last
        BY ONLY <1>1, <1>2
      <4> QED
        BY <1>3, <4>1, MarksAt, OffsetsAt
    <3> QED
      BY ONLY <1>5, <1>6, <1>15, <3>1, <3>2, pos = m.query
  <2>4. /\ DOMAIN new = {"fragment", "path_size"}
        /\ new["fragment"] = M["fragment"] /\ new["path_size"] = M["path_size"]
    BY <1>10a, <1>12, <2>2, <2>3 DEF And
  <2> QED
    BY <1>3, <1>4, <1>11, <1>13, <1>15, <2>3, <2>4, MarkKeeps
<1> QED
  BY <1>3, <1>14, <1>15

(* What is known while the user is read. *)
LEMMA InUser ==
  ASSUME NEW o, NEW m, UriOf(text.tokens, o, m), Read(o, m),
         m.name <= pos, pos <= m.at, NEW M, M = Meaning(o, m)
  PROVE  /\ m \in Mark /\ pos \in Nat /\ m.scheme < m.name
         /\ m.at + 1 < m.host /\ m.host <= m.port /\ m.port <= m.path
         /\ m.path <= m.query /\ m.query <= m.last
         /\ m.scheme \in Nat /\ m.name \in Nat /\ m.at \in Nat /\ m.host \in Nat
         /\ m.port \in Nat /\ m.path \in Nat /\ m.query \in Nat /\ m.last \in Nat
         /\ m.at >= m.name /\ pos < m.last /\ ~AtEnd /\ off = o[pos] - o[m.first]
         /\ o[pos] \in Nat /\ o[m.first] \in Nat /\ o[m.name] \in Nat
         /\ UserRead(o, m)
         /\ uri.scheme_size # 0 /\ uri.port_size = 0
         /\ ~(pos = m.scheme + 1 /\ m.name = m.scheme + 3)
<1>1. /\ m \in Mark /\ m.first >= 1 /\ m.first < m.scheme /\ m.scheme < m.name
      /\ m.name <= m.at + 1 /\ m.at + 1 < m.host /\ m.host <= m.port
      /\ m.port <= m.path /\ m.path <= m.query /\ m.query <= m.last
  BY MarksAt
<1>2. /\ m.first \in Nat /\ m.scheme \in Nat /\ m.name \in Nat /\ m.at \in Nat
      /\ m.host \in Nat /\ m.port \in Nat /\ m.path \in Nat /\ m.query \in Nat
      /\ m.last \in Nat
  BY <1>1, MarksNat
<1>3. pos \in m.first .. m.last
  BY DEF Read
<1>4. /\ m.at >= m.name /\ pos < m.last /\ pos > m.scheme /\ ~(pos > m.port)
      /\ ~(pos = m.scheme + 1 /\ m.name = m.scheme + 3)
      /\ m.name \in m.first .. m.last
  BY ONLY <1>1, <1>2, <1>3, m.name <= pos, pos <= m.at
<1>5. UserRead(o, m)
  BY DEF Read
<1>6. uri.scheme_size # 0 /\ uri.port_size = 0
  <2>1. "scheme_size" \in Field \ Unsure /\ "port_size" \in Field \ Unsure
    BY FieldsAre DEF Unsure
  <2>2. /\ uri["scheme_size"] = Known(M, m, pos, "scheme_size")
        /\ uri["port_size"] = Known(M, m, pos, "port_size")
    BY <1>5, <2>1 DEF UserRead
  <2>3. M.scheme_size # 0
    BY MeaningIs
  <2> QED
    BY <1>4, <2>2, <2>3 DEF Known, After
<1>7. o[m.name] \in Nat
  BY <1>4, OffsetsAt
<1> QED
  BY <1>1, <1>2, <1>4, <1>5, <1>6, <1>7, Reading

(* A character of the user. *)
LEMMA UserCharKeeps ==
  ASSUME NEW o, NEW m, UriOf(text.tokens, o, m), Read(o, m),
         m.name <= pos, pos < m.at, uri \in [Field -> Nat], pc = "scan", Next
  PROVE  text' = text /\ pc' = "scan" /\ calls' = calls /\ Read(o, m)'
<1>1. PICK M : M = Meaning(o, m)
  OBVIOUS
<1>2. pos <= m.at
  <2>1. m \in Mark /\ pos \in m.first .. m.last
    BY MarksAt DEF Read
  <2>2. m.at \in Nat /\ m.first \in Nat /\ m.last \in Nat
    BY <2>1, MarksNat
  <2> QED
    BY ONLY <2>1, <2>2, pos < m.at
<1>3. /\ m \in Mark /\ pos \in Nat /\ m.scheme < m.name
      /\ m.at + 1 < m.host /\ m.host <= m.port /\ m.port <= m.path
      /\ m.path <= m.query /\ m.query <= m.last
      /\ m.scheme \in Nat /\ m.name \in Nat /\ m.at \in Nat /\ m.host \in Nat
      /\ m.port \in Nat /\ m.path \in Nat /\ m.query \in Nat /\ m.last \in Nat
      /\ m.at >= m.name /\ pos < m.last /\ ~AtEnd /\ off = o[pos] - o[m.first]
      /\ o[pos] \in Nat /\ o[m.first] \in Nat /\ o[m.name] \in Nat
      /\ UserRead(o, m) /\ uri.scheme_size # 0 /\ uri.port_size = 0
      /\ ~(pos = m.scheme + 1 /\ m.name = m.scheme + 3)
  BY <1>1, <1>2, InUser
<1>4. /\ M.userinfo = o[m.name] - o[m.first] /\ M.userinfo # 0
      /\ Below(M.userinfo, 16)
  <2>1. "userinfo" \in Field
    BY FieldsAre
  <2>2. Below(M["userinfo"], Room["userinfo"])
    BY <1>1, <2>1, MeaningIs
  <2> QED
    BY <1>1, <1>3, <2>2, MeaningIs DEF Room
<1>5. pos \in m.name .. m.at - 1
  BY ONLY <1>3, m.name <= pos, pos < m.at
<1>6. /\ text.tokens[pos].c \in {"a", ":"}
      /\ \A j, k \in m.name .. m.at - 1 :
           text.tokens[j].c = ":" /\ text.tokens[k].c = ":" => j = k
  BY <1>3, <1>5 DEF UriOf, IsUri, Only
<1>7. ~Is(" ") /\ ~Is("/") /\ ~Is("@") /\ ~Is("?") /\ ~Is("#") /\ ~Is(";")
  BY <1>3, <1>6 DEF Is
<1>8. Is(":") <=> text.tokens[pos].c = ":"
  BY <1>3 DEF Is
<1>9. \A f \in Field : After(m)[f] # pos
  <2>1. /\ pos # m.scheme /\ pos # m.at /\ pos # m.host /\ pos # m.port
        /\ pos # m.path /\ pos # m.query /\ pos # m.last
    BY ONLY <1>3, m.name <= pos, pos < m.at
  <2> QED
    BY <2>1, FieldsAre DEF After
<1>10. \A f \in Field : Known(M, m, pos + 1, f) = Known(M, m, pos, f)
  <2> SUFFICES ASSUME NEW f \in Field
               PROVE  Known(M, m, pos + 1, f) = Known(M, m, pos, f)
    OBVIOUS
  <2>1. m \in Mark /\ pos \in Nat /\ After(m)[f] # pos
    BY <1>3, <1>9
  <2> QED
    BY ONLY <2>1, KnownNext, f \in Field
<1>11. \A f \in Field \ Unsure : uri[f] = Known(M, m, pos + 1, f)
  BY <1>1, <1>3, <1>10 DEF UserRead
<1>12. m.name <= pos + 1 /\ pos + 1 <= m.at
  BY ONLY <1>3, <1>5
<1>13. ASSUME NEW branch, NEW new, Scan(branch, new, 1),
              DOMAIN new \subseteq Unsure
       PROVE  /\ text' = text /\ pc' = "scan" /\ calls' = calls /\ pos' = pos + 1
              /\ \A f \in Field \ DOMAIN new : uri'[f] = uri[f]
              /\ \A f \in Field \ Unsure : uri'[f] = Known(M, m, pos', f)
              /\ UserRead(o, m)' => Read(o, m)'
  <2>1. /\ text' = text /\ pc' = "scan" /\ calls' = calls /\ pos' = pos + 1
        /\ uri' = Store(uri, new)
        /\ pos' \in m.first .. m.last /\ (pos' > m.scheme + 1 => pos' >= m.name)
        /\ off' = o[pos'] - o[m.first]
    <3>1. 1 \in {1, 2} /\ (1 = 2 <=> pos = m.scheme + 1 /\ m.name = m.scheme + 3)
      BY <1>3
    <3> QED
      BY <1>3, <1>13, <3>1, Moves
  <2>2. \A f \in Field \ DOMAIN new : uri'[f] = uri[f]
    BY <2>1 DEF Store
  <2> QED
    BY <1>11, <1>12, <1>13, <2>1, <2>2 DEF Read
<1>14. /\ "host" \in Field /\ "host_size" \in Field /\ "port" \in Field
       /\ "path" \in Field /\ Unsure = {"host", "host_size", "port", "path"}
  BY FieldsAre DEF Unsure
<1>15. CASE /\ m.name = m.scheme + 1
            /\ uri.host = 0 /\ uri.host_size = 0 /\ uri.port = 0
            /\ uri.path = IF pos > m.name THEN o[m.name] - o[m.first] ELSE 0
  <2>1. CASE pos > m.name
    <3>1. uri.path = o[m.name] - o[m.first] /\ uri.path # 0
      BY <1>4, <1>15, <2>1
    <3>2. Branch = "none"
      BY ONLY <1>3, <1>7, <1>15, <3>1 DEF Branch
    <3>3. Scan("none", Unchanged, 1)
      BY <1>3, <1>7, <3>2, TheBranch DEF NoEffect
    <3>4. DOMAIN Unchanged = {}
      BY DEF Unchanged
    <3>5. /\ text' = text /\ pc' = "scan" /\ calls' = calls /\ pos' = pos + 1
          /\ \A f \in Field : uri'[f] = uri[f]
          /\ \A f \in Field \ Unsure : uri'[f] = Known(M, m, pos', f)
          /\ UserRead(o, m)' => Read(o, m)'
      BY <1>13, <3>3, <3>4
    <3>6. pos' > m.name
      BY ONLY <1>3, <2>1, <3>5
    <3>7. uri'.host = 0 /\ uri'.host_size = 0 /\ uri'.port = 0 /\ uri'.path = uri.path
      BY <1>14, <1>15, <3>5
    <3>8. UserRead(o, m)'
      BY <1>1, <1>15, <3>1, <3>5, <3>6, <3>7 DEF UserRead
    <3> QED
      BY <3>5, <3>8
  <2>2. CASE ~(pos > m.name)
    <3>1. pos = m.name /\ uri.path = 0
      <4>1. pos = m.name
        BY ONLY <1>3, <2>2, m.name <= pos
      <4> QED
        BY <1>15, <2>2, <4>1
    <3>2. Branch = "opaque"
      BY ONLY <1>3, <1>7, <1>15, <3>1 DEF Branch
    <3>3. PICK new : new = And([path |-> off], Unchanged)
      OBVIOUS
    <3>4. Scan("opaque", new, 1)
      BY <1>3, <1>7, <1>15, <3>2, <3>3, TheBranch DEF OpaquePath
    <3>5. DOMAIN new = {"path"} /\ new["path"] = o[m.name] - o[m.first]
      BY <1>3, <3>1, <3>3 DEF And, Unchanged
    <3>6. /\ text' = text /\ pc' = "scan" /\ calls' = calls /\ pos' = pos + 1
          /\ \A f \in Field \ {"path"} : uri'[f] = uri[f]
          /\ \A f \in Field \ Unsure : uri'[f] = Known(M, m, pos', f)
          /\ UserRead(o, m)' => Read(o, m)'
      BY <1>13, <1>14, <3>4, <3>5
    <3>7. uri'["path"] = o[m.name] - o[m.first]
      <4>1. Below(new["path"], Room["path"])
        BY <1>4, <3>5 DEF Below, Room
      <4>2. uri' = Store(uri, new)
        BY <3>4 DEF Scan
      <4> QED
        BY <1>14, <3>5, <4>1, <4>2, StoreFits
    <3>8. pos' > m.name
      BY ONLY <1>3, <3>1, <3>6
    <3>9. uri'.host = 0 /\ uri'.host_size = 0 /\ uri'.port = 0
      BY <1>14, <1>15, <3>6
    <3>10. UserRead(o, m)'
      BY <1>1, <1>15, <3>6, <3>7, <3>8, <3>9 DEF UserRead
    <3> QED
      BY <3>6, <3>10
  <2> QED
    BY <2>1, <2>2
<1>16. CASE /\ m.name = m.scheme + 3
            /\ uri.host = o[m.name] - o[m.first] /\ uri.path = 0
            /\ (\E k \in pos .. m.at - 1 : text.tokens[k].c = ":") => uri.host_size = 0
  <2>0. uri.host # 0
    BY <1>4, <1>16
  <2>1. CASE text.tokens[pos].c = ":"
    <3>1. uri.host_size = 0
      <4>1. pos \in pos .. m.at - 1
        BY ONLY <1>3, <1>5
      <4> QED
        BY <1>16, <2>1, <4>1
    <3>2. Branch = "host end"
      BY ONLY <1>3, <1>8, <2>0, <2>1, <3>1 DEF Branch
    <3>3. PICK new : new = [host_size |-> off - uri.host, port |-> off + 1]
      OBVIOUS
    <3>4. Scan("host end", new, 1) /\ DOMAIN new = {"host_size", "port"}
      BY <1>3, <1>7, <3>2, <3>3, TheBranch DEF HostEnd
    <3>5. /\ text' = text /\ pc' = "scan" /\ calls' = calls /\ pos' = pos + 1
          /\ \A f \in Field \ {"host_size", "port"} : uri'[f] = uri[f]
          /\ \A f \in Field \ Unsure : uri'[f] = Known(M, m, pos', f)
          /\ UserRead(o, m)' => Read(o, m)'
      BY <1>13, <1>14, <3>4
    <3>6. ~ \E k \in pos' .. m.at - 1 : text.tokens[k].c = ":"
      <4> SUFFICES ASSUME NEW k \in pos' .. m.at - 1, text.tokens[k].c = ":" PROVE FALSE
        OBVIOUS
      <4>1. k \in m.name .. m.at - 1 /\ k # pos
        BY ONLY <1>3, <1>5, <3>5, k \in pos' .. m.at - 1
      <4> QED
        BY <1>5, <1>6, <2>1, <4>1
    <3>7. uri'.host = uri.host /\ uri'.path = 0
      BY <1>14, <1>16, <3>5
    <3>8. UserRead(o, m)'
      BY <1>1, <1>16, <3>5, <3>6, <3>7 DEF UserRead
    <3> QED
      BY <3>5, <3>8
  <2>2. CASE text.tokens[pos].c # ":"
    <3>1. Branch = "none"
      BY ONLY <1>3, <1>7, <1>8, <2>0, <2>2 DEF Branch
    <3>2. Scan("none", Unchanged, 1)
      BY <1>3, <1>7, <3>1, TheBranch DEF NoEffect
    <3>3. DOMAIN Unchanged = {}
      BY DEF Unchanged
    <3>4. /\ text' = text /\ pc' = "scan" /\ calls' = calls /\ pos' = pos + 1
          /\ \A f \in Field : uri'[f] = uri[f]
          /\ \A f \in Field \ Unsure : uri'[f] = Known(M, m, pos', f)
          /\ UserRead(o, m)' => Read(o, m)'
      BY <1>13, <3>2, <3>3
    <3>5. \A k \in pos' .. m.at - 1 : k \in pos .. m.at - 1
      BY ONLY <1>3, <3>4
    <3>6. uri'.host = uri.host /\ uri'.path = 0 /\ uri'.host_size = uri.host_size
      BY <1>14, <1>16, <3>4
    <3>7. UserRead(o, m)'
      BY <1>1, <1>16, <3>4, <3>5, <3>6 DEF UserRead
    <3> QED
      BY <3>4, <3>7
  <2> QED
    BY <2>1, <2>2
<1> QED
  BY <1>3, <1>15, <1>16 DEF UserRead

(* The "@": what was taken for a host, or for a path, was the user. *)
LEMMA UserEndKeepsRead ==
  ASSUME NEW o, NEW m, UriOf(text.tokens, o, m), Read(o, m),
         m.name <= pos, pos = m.at, uri \in [Field -> Nat], pc = "scan", Next
  PROVE  text' = text /\ pc' = "scan" /\ calls' = calls /\ Read(o, m)'
<1>1. PICK M : M = Meaning(o, m)
  OBVIOUS
<1>2. pos <= m.at
  <2>1. m \in Mark
    BY MarksAt
  <2>2. m.at \in Nat
    BY <2>1, MarksNat
  <2> QED
    BY ONLY <2>2, pos = m.at
<1>3. /\ m \in Mark /\ pos \in Nat /\ m.scheme < m.name
      /\ m.at + 1 < m.host /\ m.host <= m.port /\ m.port <= m.path
      /\ m.path <= m.query /\ m.query <= m.last
      /\ m.scheme \in Nat /\ m.name \in Nat /\ m.at \in Nat /\ m.host \in Nat
      /\ m.port \in Nat /\ m.path \in Nat /\ m.query \in Nat /\ m.last \in Nat
      /\ m.at >= m.name /\ pos < m.last /\ ~AtEnd /\ off = o[pos] - o[m.first]
      /\ o[pos] \in Nat /\ o[m.first] \in Nat /\ o[m.name] \in Nat
      /\ UserRead(o, m) /\ uri.scheme_size # 0 /\ uri.port_size = 0
      /\ ~(pos = m.scheme + 1 /\ m.name = m.scheme + 3)
  BY <1>1, <1>2, InUser
<1>4. /\ M.userinfo = o[m.name] - o[m.first] /\ M.userinfo # 0
      /\ M.userinfo_size = o[m.at] - o[m.name] /\ M.userinfo_size # 0
      /\ M.host = o[m.at + 1] - o[m.first]
  BY <1>1, <1>3, MeaningIs
<1>4a. UserOffset(M.userinfo) = M.userinfo
  <2>1. "userinfo" \in Field
    BY DEF Field, Width
  <2>2. Below(M["userinfo"], Room["userinfo"])
    BY <1>1, <2>1, MeaningIs
  <2>3. M.userinfo \in Nat /\ M.userinfo < 16
    BY <2>2 DEF Room, Below
  <2>4. Width.userinfo = 4
    BY DEF Width
  <2>5. M.userinfo % 2^4 = M.userinfo
    <3>1. 2^4 = 16
      BY SMT
    <3> QED
      BY ONLY <2>3, <3>1
  <2> QED
    BY <2>4, <2>5 DEF UserOffset
<1>5. M.host = off + 1
  <2>1. o[m.at + 1] = o[m.at] + 1
    BY <1>3, MarksAt
  <2> QED
    BY ONLY <1>3, <1>4, <2>1, pos = m.at
<1>6. pos > m.name
  <2>1. m.at # m.name
    BY <1>3, <1>4
  <2>2. m.at \in Nat /\ m.name \in Nat /\ m.at >= m.name
    BY <1>3
  <2> QED
    BY ONLY <2>1, <2>2, pos = m.at
<1>7. text.tokens[pos].c = "@"
  BY <1>3 DEF UriOf, IsUri
<1>8. Is("@") /\ ~Is(" ") /\ ~Is("/") /\ ~Is(":")
  BY <1>3, <1>7 DEF Is
<1>9. Branch = "user end"
  BY ONLY <1>8 DEF Branch
<1>10. UserEnd
  BY <1>3, <1>8, <1>9, TheBranch
<1>11. /\ \A f \in Field \ {"userinfo", "userinfo_size", "host"} :
            Known(M, m, pos + 1, f) = Known(M, m, pos, f)
       /\ \A f \in {"userinfo", "userinfo_size", "host"} : Known(M, m, pos + 1, f) = M[f]
       /\ \A f \in {"host_size", "port", "port_size", "path"} : Known(M, m, pos + 1, f) = 0
  <2>1. /\ pos # m.scheme /\ pos # m.host /\ pos # m.port
        /\ pos # m.path /\ pos # m.query /\ pos # m.last
        /\ pos + 1 > m.at /\ ~(pos + 1 > m.host) /\ ~(pos + 1 > m.port)
    BY ONLY <1>3, <1>6, pos = m.at
  <2>2. ASSUME NEW f \in Field \ {"userinfo", "userinfo_size", "host"}
        PROVE  Known(M, m, pos + 1, f) = Known(M, m, pos, f)
    <3>1. After(m)[f] # pos
      BY <2>1, FieldsAre DEF After
    <3>2. m \in Mark /\ pos \in Nat /\ f \in Field
      BY <1>3
    <3> QED
      BY ONLY <3>1, <3>2, KnownNext
  <2>3. /\ \A f \in {"userinfo", "userinfo_size", "host"} : Known(M, m, pos + 1, f) = M[f]
        /\ \A f \in {"host_size", "port", "port_size", "path"} :
             Known(M, m, pos + 1, f) = 0
    BY <2>1 DEF Known, After
  <2> QED
    BY <2>2, <2>3
<1>12. \A f \in Field \ (Unsure \cup {"userinfo", "userinfo_size"}) :
         uri[f] = Known(M, m, pos + 1, f)
  BY <1>1, <1>3, <1>11 DEF UserRead, Unsure
<1>13. ASSUME NEW new, Scan("user end", new, 1),
              \A f \in Field : IF f \in DOMAIN new THEN new[f] = Known(M, m, pos + 1, f)
                               ELSE uri[f] = Known(M, m, pos + 1, f)
       PROVE  text' = text /\ pc' = "scan" /\ calls' = calls /\ Read(o, m)'
  <2>1. 1 \in {1, 2} /\ (1 = 2 <=> pos = m.scheme + 1 /\ m.name = m.scheme + 3)
    BY <1>3
  <2>2. /\ text' = text /\ pc' = "scan" /\ calls' = calls /\ pos' = pos + 1
        /\ pos' \in m.first .. m.last /\ (pos' > m.scheme + 1 => pos' >= m.name)
        /\ off' = o[pos'] - o[m.first]
        /\ \A f \in Field : uri'[f] = Known(M, m, pos', f)
    <3>1. pos < m.last
      BY <1>3
    <3>2. \A f \in Field : IF f \in DOMAIN new
                           THEN new[f] = Known(Meaning(o, m), m, pos + 1, f)
                           ELSE uri[f] = Known(Meaning(o, m), m, pos + 1, f)
      BY <1>1, <1>13
    <3>3. /\ text' = text /\ pc' = "scan" /\ calls' = calls /\ pos' = pos + 1
          /\ pos' \in m.first .. m.last /\ (pos' > m.scheme + 1 => pos' >= m.name)
          /\ off' = o[pos'] - o[m.first]
          /\ \A f \in Field : uri'[f] = Known(Meaning(o, m), m, pos', f)
      <4>1. PICK branch, n : branch = "user end" /\ n = 1
        OBVIOUS
      <4>2. Scan(branch, new, n)
        BY <1>13, <4>1
      <4>3. n \in {1, 2} /\ (n = 2 <=> pos = m.scheme + 1 /\ m.name = m.scheme + 3)
        BY <2>1, <4>1
      <4>4. \A f \in Field : IF f \in DOMAIN new
                             THEN new[f] = Known(Meaning(o, m), m, pos + n, f)
                             ELSE uri[f] = Known(Meaning(o, m), m, pos + n, f)
        BY <3>2, <4>1
      <4>5. /\ text' = text /\ pc' = "scan" /\ calls' = calls /\ pos' = pos + n
            /\ pos' \in m.first .. m.last /\ (pos' > m.scheme + 1 => pos' >= m.name)
            /\ off' = o[pos'] - o[m.first]
            /\ \A f \in Field : uri'[f] = Known(Meaning(o, m), m, pos', f)
        BY <3>1, <4>2, <4>3, <4>4, ReadsOn
      <4> QED
        BY <4>1, <4>5
    <3> QED
      BY <1>1, <3>3
  <2>3. ~(m.name <= pos' /\ pos' <= m.at)
    BY ONLY <1>3, <2>2, pos = m.at
  <2> QED
    BY <1>1, <2>2, <2>3 DEF Read
<1>14. CASE /\ m.name = m.scheme + 1
            /\ uri.host = 0 /\ uri.host_size = 0 /\ uri.port = 0
            /\ uri.path = IF pos > m.name THEN o[m.name] - o[m.first] ELSE 0
  <2>1. uri.path = M.userinfo /\ uri.path # 0
    BY <1>4, <1>6, <1>14
  <2>2. PICK new : new = [userinfo |-> uri.path, userinfo_size |-> off - UserOffset(uri.path),
                          path |-> 0, host |-> off + 1, host_size |-> 0]
    OBVIOUS
  <2>3. Scan("user end", new, 1)
    BY <1>10, <1>14, <2>1, <2>2 DEF UserEnd
  <2>4. off - UserOffset(uri.path) = M.userinfo_size
    BY ONLY <1>3, <1>4, <1>4a, <2>1, pos = m.at
  <2>5. /\ DOMAIN new = {"userinfo", "userinfo_size", "path", "host", "host_size"}
        /\ new["userinfo"] = M["userinfo"] /\ new["userinfo_size"] = M["userinfo_size"]
        /\ new["path"] = 0 /\ new["host"] = M["host"] /\ new["host_size"] = 0
    BY <1>5, <2>1, <2>2, <2>4
  <2>6. \A f \in Field : IF f \in DOMAIN new THEN new[f] = Known(M, m, pos + 1, f)
                         ELSE uri[f] = Known(M, m, pos + 1, f)
    BY <1>11, <1>12, <1>14, <2>5 DEF Unsure
  <2> QED
    BY <1>13, <2>3, <2>6
<1>15. CASE /\ m.name = m.scheme + 3
            /\ uri.host = o[m.name] - o[m.first] /\ uri.path = 0
  <2>1. uri.host = M.userinfo /\ uri.host # 0
    BY <1>4, <1>15
  <2>2. PICK new : new = [userinfo |-> uri.host, userinfo_size |-> off - UserOffset(uri.host),
                          host |-> off + 1, host_size |-> 0, port |-> 0,
                          port_size |-> 0]
    OBVIOUS
  <2>3. Scan("user end", new, 1)
    BY <1>10, <2>1, <2>2 DEF UserEnd
  <2>4. off - UserOffset(uri.host) = M.userinfo_size
    BY ONLY <1>3, <1>4, <1>4a, <2>1, pos = m.at
  <2>5. /\ DOMAIN new = {"userinfo", "userinfo_size", "host", "host_size", "port",
                         "port_size"}
        /\ new["userinfo"] = M["userinfo"] /\ new["userinfo_size"] = M["userinfo_size"]
        /\ new["host"] = M["host"] /\ new["host_size"] = 0 /\ new["port"] = 0
        /\ new["port_size"] = 0
    BY <1>5, <2>1, <2>2, <2>4
  <2>6. \A f \in Field : IF f \in DOMAIN new THEN new[f] = Known(M, m, pos + 1, f)
                         ELSE uri[f] = Known(M, m, pos + 1, f)
    BY <1>11, <1>12, <1>15, <2>5 DEF Unsure
  <2> QED
    BY <1>13, <2>3, <2>6
<1> QED
  BY <1>3, <1>14, <1>15 DEF UserRead

(* Up to its end, whatever a URI is made of, what is read of it is what it means. *)
LEMMA ReadKeeps ==
  ASSUME NEW o, NEW m, UriOf(text.tokens, o, m), Read(o, m), pos < m.last,
         uri \in [Field -> Nat], pc = "scan", Next
  PROVE  text' = text /\ pc' = "scan" /\ calls' = calls /\ Read(o, m)'
<1>1. /\ m \in Mark /\ m.host <= m.port /\ m.port <= m.path /\ m.path <= m.query
      /\ m.query <= m.last /\ pos \in Nat
  BY MarksAt, Reading
<1>2. /\ m.name \in Nat /\ m.at \in Nat /\ m.host \in Nat /\ m.port \in Nat
      /\ m.path \in Nat /\ m.query \in Nat /\ m.last \in Nat
  BY <1>1, MarksNat
<1>3. CASE m.name <= pos /\ pos < m.at
  BY <1>3, UserCharKeeps
<1>4. CASE m.name <= pos /\ pos = m.at
  BY <1>4, UserEndKeepsRead
<1>5. CASE pos = m.scheme
  BY <1>5, SchemeKeeps
<1>6. CASE pos = m.scheme + 1 /\ m.name = m.scheme + 3
  BY <1>6, AuthorityKeepsRead
<1>7. CASE pos = m.host /\ m.host < m.port
  BY <1>7, HostKeeps
<1>8. CASE pos = m.port /\ m.port < m.path
  BY <1>8, PortKeeps
<1>9. CASE pos = m.path /\ m.path < m.query
  BY <1>9, PathKeeps
<1>10. CASE pos = m.query
  BY <1>10, QueryKeeps
<1>11. CASE /\ ~(m.name <= pos /\ pos <= m.at)
            /\ pos \notin {m.scheme, m.host, m.port, m.path, m.query}
            /\ ~(pos = m.scheme + 1 /\ m.name = m.scheme + 3)
  BY <1>11, QuietKeeps
<1>12. /\ m.host < m.port \/ m.host = m.port
       /\ m.port < m.path \/ m.port = m.path
       /\ m.path < m.query \/ m.path = m.query
       /\ (pos <= m.at => pos < m.at \/ pos = m.at)
  BY ONLY <1>1, <1>2
<1> QED
  BY <1>3, <1>4, <1>5, <1>6, <1>7, <1>8, <1>9, <1>10, <1>11, <1>12

(* A set of one number has it for its least. *)
LEMMA MinOne ==
  ASSUME NEW k \in Nat
  PROVE  Min({k}) = k
BY DEF Min

(* At the end of a URI one part has begun and has no size, and its size is what
   is left. *)
LEMMA LastPart ==
  ASSUME NEW o, NEW m, UriOf(text.tokens, o, m), Read(o, m), pos = m.last,
         uri \in [Field -> Nat], NEW M, M = Meaning(o, m)
  PROVE  \E k \in {1, 2, 3} :
           /\ Open = {k} /\ Closed \in [Field -> Nat]
           /\ \A f \in Field \ {Tails[k][2]} : Closed[f] = M[f]
           /\ off - Closed[Tails[k][1]] = M[Tails[k][2]]
<1>1. /\ m \in Mark /\ m.first >= 1 /\ m.first < m.scheme /\ m.scheme < m.name
      /\ m.name <= m.at + 1 /\ m.at + 1 < m.host /\ m.host <= m.port
      /\ m.port <= m.path /\ m.path <= m.query /\ m.query <= m.last
      /\ m.path = m.port => m.last = m.port
  BY MarksAt
<1>2. /\ m.first \in Nat /\ m.scheme \in Nat /\ m.name \in Nat /\ m.at \in Nat
      /\ m.host \in Nat /\ m.port \in Nat /\ m.path \in Nat /\ m.query \in Nat
      /\ m.last \in Nat
  BY <1>1, MarksNat
<1>3. pos > m.at /\ pos > m.scheme /\ ~(m.name <= pos /\ pos <= m.at) /\ ~(pos > m.last)
  BY ONLY <1>1, <1>2, pos = m.last
<1>4. \A f \in Field : uri[f] = Known(M, m, pos, f)
  BY <1>3 DEF Read
<1>5. off = o[m.last] - o[m.first]
  BY DEF Read
<1>6. \A k \in {m.first, m.scheme, m.name, m.at, m.at + 1, m.host, m.port, m.path,
                m.query, m.last} : o[k] \in Nat
  <2> SUFFICES ASSUME NEW k \in {m.first, m.scheme, m.name, m.at, m.at + 1, m.host,
                                 m.port, m.path, m.query, m.last}
               PROVE  k \in m.first .. m.last
    BY OffsetsAt
  <2>1. \/ k = m.first \/ k = m.scheme \/ k = m.name \/ k = m.at \/ k = m.at + 1
        \/ k = m.host \/ k = m.port \/ k = m.path \/ k = m.query \/ k = m.last
    OBVIOUS
  <2> QED
    BY ONLY <1>1, <1>2, <2>1
<1>7. /\ uri.scheme_size = M.scheme_size /\ uri.userinfo = M.userinfo
      /\ uri.userinfo_size = M.userinfo_size /\ uri.host = M.host
      /\ uri.fragment_size = 0 /\ M.host # 0
  <2>1. M.host # 0
    BY MeaningIs
  <2> QED
    BY <1>3, <1>4, <2>1, FieldsKnown
<1>8. /\ Tails[1][1] = "path" /\ Tails[1][2] = "path_size"
      /\ Tails[2][1] = "query" /\ Tails[2][2] = "query_size"
      /\ Tails[3][1] = "fragment" /\ Tails[3][2] = "fragment_size"
      /\ DOMAIN Tails = {1, 2, 3}
  BY DEF Tails
<1>9. /\ Closed.path # 0 /\ Closed.path_size = 0 <=> 1 \in Open
      /\ Closed.query # 0 /\ Closed.query_size = 0 <=> 2 \in Open
      /\ Closed.fragment # 0 /\ Closed.fragment_size = 0 <=> 3 \in Open
      /\ Open \subseteq {1, 2, 3}
  BY <1>8 DEF Open
<1>10. CASE m.last = m.port
  <2>1. /\ ~(pos > m.port) /\ ~(pos > m.path) /\ ~(pos > m.query) /\ (pos > m.host <=> m.port > m.host)
        /\ m.path = m.port /\ m.query = m.path /\ m.last = m.query
        /\ (m.port > m.host \/ m.port = m.host)
    BY ONLY <1>1, <1>2, <1>10, pos = m.last
  <2>2. /\ uri.port_size = 0 /\ uri.path = 0 /\ uri.path_size = 0 /\ uri.query = 0
        /\ uri.query_size = 0 /\ uri.fragment = 0
        /\ uri.host_size = IF pos > m.host THEN M.host_size ELSE 0
        /\ uri.port = IF pos > m.host THEN M.port ELSE 0
    BY <1>4, <2>1, FieldsKnown
  <2>3. /\ M.path = off /\ M.path_size = 0 /\ M.query = 0 /\ M.query_size = 0
        /\ M.fragment = 0 /\ M.fragment_size = 0
    <3>1. /\ M.path = o[m.port] - o[m.first] /\ M.path_size = 0 /\ M.query = 0
          /\ M.query_size = 0 /\ M.fragment = 0 /\ M.fragment_size = 0
      BY <2>1, MeaningIs
    <3> QED
      BY <1>5, <1>10, <3>1
  <2>4. PICK new : new = And([path |-> off], HostOrPort)
    OBVIOUS
  <2>5. Closed = Store(uri, new)
    BY <1>7, <2>2, <2>4 DEF Closed
  <2>6. \A f \in Field : IF f \in DOMAIN new THEN new[f] = M[f] ELSE uri[f] = M[f]
    <3>1. CASE m.port > m.host
      <4>1. /\ uri.port = M.port /\ M.port # 0 /\ uri.host_size = M.host_size
        BY <2>1, <2>2, <3>1, MeaningIs
      <4>2. off - uri.port = M.port_size
        <5>1. M.port = o[m.host + 1] - o[m.first] /\ M.port_size = o[m.port] - o[m.host + 1]
          BY <3>1, MeaningIs
        <5>2. o[m.host + 1] = o[m.host] + 1 /\ o[m.host] \in Nat /\ o[m.first] \in Nat
              /\ o[m.port] \in Nat
          BY <1>6, <3>1, MarksAt
        <5>3. off = o[m.port] - o[m.first]
          BY <1>5, <1>10
        <5> QED
          BY ONLY <4>1, <5>1, <5>2, <5>3
      <4>3. /\ DOMAIN new = {"path", "port_size"}
            /\ new["path"] = M["path"] /\ new["port_size"] = M["port_size"]
        BY <2>3, <2>4, <4>1, <4>2 DEF And, HostOrPort
      <4> QED
        BY <1>7, <2>2, <2>3, <4>1, <4>3, FieldsAre
    <3>2. CASE m.port = m.host
      <4>1. ~(pos > m.host)
        BY ONLY <1>2, <2>1, <3>2
      <4>2. uri.port = 0 /\ M.port = 0 /\ M.port_size = 0
        BY <2>2, <3>2, <4>1, MeaningIs
      <4>3. off - uri.host = M.host_size
        <5>1. M.host = o[m.at + 1] - o[m.first] /\ M.host_size = o[m.host] - o[m.at + 1]
          BY MeaningIs
        <5>2. o[m.at + 1] \in Nat /\ o[m.host] \in Nat /\ o[m.first] \in Nat
          BY <1>6
        <5>3. off = o[m.host] - o[m.first]
          BY <1>5, <1>10, <3>2
        <5> QED
          BY ONLY <1>7, <5>1, <5>2, <5>3
      <4>4. /\ DOMAIN new = {"path", "host_size"}
            /\ new["path"] = M["path"] /\ new["host_size"] = M["host_size"]
        BY <2>3, <2>4, <4>2, <4>3 DEF And, HostOrPort
      <4> QED
        BY <1>7, <2>2, <2>3, <4>2, <4>4, FieldsAre
    <3> QED
      BY <2>1, <3>1, <3>2
  <2>7. \A f \in Field : Closed[f] = M[f]
    <3>1. \A f \in DOMAIN new \cap Field : Below(new[f], Room[f])
      BY <2>6, MeaningIs
    <3> QED
      BY <2>5, <2>6, <3>1, StoreFits
  <2>8. Closed \in [Field -> Nat]
    <3>1. Closed = [f \in Field |-> Closed[f]]
      BY <2>5 DEF Store
    <3>2. M \in [Field -> Nat]
      BY MeaningIs
    <3> QED
      BY <2>7, <3>1, <3>2
  <2>9. Open = {1}
    <3>1. /\ Closed.path = M.path /\ Closed.path_size = 0 /\ Closed.query = 0
          /\ Closed.fragment = 0
      BY <2>3, <2>7, FieldsAre
    <3>2. M.path # 0
      BY MeaningIs
    <3> QED
      BY <1>9, <3>1, <3>2
  <2>10. off - Closed[Tails[1][1]] = M[Tails[1][2]]
    <3>1. Closed["path"] = off /\ M["path_size"] = 0 /\ off \in Int
      <4>1. "path" \in Field /\ M["path"] = off
        BY <2>3, FieldsAre
      <4> QED
        BY <1>5, <1>6, <2>3, <2>7, <4>1
    <3> QED
      BY <1>8, <3>1
  <2> QED
    BY <2>7, <2>8, <2>9, <2>10
<1>11. CASE m.last # m.port
  <2>1. /\ m.path > m.port /\ pos > m.port /\ pos > m.host
        /\ (pos > m.path <=> m.last > m.path) /\ (pos > m.query <=> m.last > m.query)
    BY ONLY <1>1, <1>2, <1>11, pos = m.last
  <2>2. /\ uri.host_size = M.host_size /\ uri.port = M.port /\ uri.port_size = M.port_size
        /\ uri.path = M.path /\ M.path # 0
        /\ uri.path_size = IF pos > m.path THEN M.path_size ELSE 0
        /\ uri.query = IF pos > m.path THEN M.query ELSE 0
        /\ uri.query_size = IF pos > m.query THEN M.query_size ELSE 0
        /\ uri.fragment = IF pos > m.query THEN M.fragment ELSE 0
    <3>1. M.path # 0
      BY MeaningIs
    <3> QED
      BY <1>4, <2>1, <3>1, FieldsKnown
  <2>3. Closed = uri
    BY <2>2 DEF Closed
  <2>4. CASE m.last = m.path
    <3>1. /\ m.query = m.path /\ m.last = m.query /\ ~(pos > m.path) /\ ~(pos > m.query)
      BY ONLY <1>1, <1>2, <2>4, pos = m.last
    <3>2. /\ M.query = 0 /\ M.query_size = 0 /\ M.fragment = 0 /\ M.fragment_size = 0
          /\ M.path = o[m.port + 1] - o[m.first] /\ M.path_size = o[m.path] - o[m.port + 1]
      BY <2>1, <3>1, MeaningIs
    <3>3. off - uri.path = M.path_size
      <4>1. o[m.port + 1] = o[m.port] + 1 /\ o[m.port] \in Nat /\ o[m.first] \in Nat
            /\ o[m.path] \in Nat
        BY <1>6, <2>1, MarksAt
      <4>2. off = o[m.path] - o[m.first]
        BY <1>5, <2>4
      <4> QED
        BY ONLY <2>2, <3>2, <4>1, <4>2
    <3>4. Open = {1}
      BY <1>9, <2>2, <2>3, <3>1
    <3>5. \A f \in Field \ {"path_size"} : uri[f] = M[f]
      BY <1>7, <2>2, <3>1, <3>2, FieldsAre
    <3> QED
      BY <1>8, <2>3, <3>3, <3>4, <3>5
  <2>5. CASE m.last # m.path /\ m.last = m.query
    <3>1. m.query > m.path /\ pos > m.path /\ ~(pos > m.query)
      BY ONLY <1>1, <1>2, <2>5, pos = m.last
    <3>2. /\ M.query = o[m.path + 1] - o[m.first] /\ M.query # 0
          /\ M.query_size = o[m.query] - o[m.path + 1]
          /\ M.path_size # 0 /\ M.fragment = 0 /\ M.fragment_size = 0
      BY <2>1, <2>5, <3>1, MeaningIs
    <3>3. off - uri.query = M.query_size
      <4>1. o[m.path + 1] = o[m.path] + 1 /\ o[m.path] \in Nat /\ o[m.first] \in Nat
            /\ o[m.query] \in Nat
        BY <1>6, <3>1, MarksAt
      <4>2. off = o[m.query] - o[m.first]
        BY <1>5, <2>5
      <4>3. uri.query = M.query
        BY <2>2, <3>1
      <4> QED
        BY ONLY <3>2, <4>1, <4>2, <4>3
    <3>4. Open = {2}
      BY <1>9, <2>2, <2>3, <3>1, <3>2
    <3>5. \A f \in Field \ {"query_size"} : uri[f] = M[f]
      BY <1>7, <2>2, <3>1, <3>2, FieldsAre
    <3> QED
      BY <1>8, <2>3, <3>3, <3>4, <3>5
  <2>6. CASE m.last # m.query
    <3>1. /\ m.last > m.query /\ pos > m.path /\ pos > m.query
          /\ (m.query > m.path \/ m.query = m.path)
      BY ONLY <1>1, <1>2, <2>6, pos = m.last
    <3>2. /\ M.fragment = o[m.query + 1] - o[m.first] /\ M.fragment # 0
          /\ M.fragment_size = o[m.last] - o[m.query + 1]
          /\ M.path_size # 0
          /\ M.query = 0 \/ M.query_size # 0
      BY <2>1, <3>1, MeaningIs
    <3>3. off - uri.fragment = M.fragment_size
      <4>1. o[m.query + 1] = o[m.query] + 1 /\ o[m.query] \in Nat /\ o[m.first] \in Nat
            /\ o[m.last] \in Nat
        BY <1>6, <3>1, MarksAt
      <4>2. uri.fragment = M.fragment
        BY <2>2, <3>1
      <4> QED
        BY ONLY <1>5, <3>2, <4>1, <4>2
    <3>4. Open = {3}
      BY <1>7, <1>9, <2>2, <2>3, <3>1, <3>2
    <3>5. \A f \in Field \ {"fragment_size"} : uri[f] = M[f]
      BY <1>7, <2>2, <3>1, <3>2, FieldsAre
    <3> QED
      BY <1>8, <2>3, <3>3, <3>4, <3>5
  <2> QED
    BY <2>4, <2>5, <2>6
<1> QED
  BY <1>10, <1>11

(* Where the parser is in a list of URIs: how many it returned, and what of the
   next one it has read. *)
ListInv(o, marks) ==
  /\ calls \in 0 .. Len(marks)
  /\ pc = "skip" => pos \in GapBegin(marks, calls) .. GapEnd(text.tokens, marks, calls)
  /\ pc = "scan" => calls < Len(marks) /\ Read(o, marks[calls + 1])
  /\ pc = "ok" => /\ calls > 0 /\ pos = marks[calls].last
                  /\ uri = Meaning(o, marks[calls])
  /\ pc = "error" => calls = Len(marks)

ListRead == \E o, marks : IsWritten(text, o, marks) /\ ListInv(o, marks)

ReadInv ==
  /\ UriInv /\ calls \in Nat /\ (pc = "ok" => calls > 0)
  /\ text.means # <<>> => ListRead

(* A text that says what its URIs mean is made of them. *)
TextsWritten == \A t \in Texts : t.means = <<>> \/ WrittenUris(t)

-----------------------------------------------------------------------------
(* The end of a URI ends the call, and what it records is what the URI means. *)
LEMMA ReturnMeans ==
  ASSUME NEW o, NEW m, UriOf(text.tokens, o, m), Read(o, m), pos = m.last,
         uri \in [Field -> Nat], pc = "scan", Next
  PROVE  /\ text' = text /\ pc' = "ok" /\ calls' = calls + 1 /\ pos' = pos
         /\ uri' = Meaning(o, m)
<1>1. PICK M : M = Meaning(o, m)
  OBVIOUS
<1>2. Return
  <2>1. AtEnd \/ Is(" ")
    <3>1. m.last = Len(text.tokens) + 1 \/ text.tokens[m.last].c = " "
      BY DEF UriOf
    <3>2. Len(text.tokens) \in Nat
      BY OffsetsAt
    <3>3. m.last = Len(text.tokens) + 1 => m.last > Len(text.tokens)
      BY ONLY <3>2
    <3> QED
      BY <3>1, <3>3 DEF AtEnd, Is
  <2> QED
    BY <2>1 DEF Next, SkipSpace, NothingLeft, Begin, CallAgain, SchemeEnd, HostEnd,
                Authority, UserEnd, PathEnd, QueryEnd, OpaquePath, Path, NoEffect, Scan
<1>3. PICK k \in {1, 2, 3} :
        /\ Open = {k} /\ Closed \in [Field -> Nat]
        /\ \A f \in Field \ {Tails[k][2]} : Closed[f] = M[f]
        /\ off - Closed[Tails[k][1]] = M[Tails[k][2]]
  BY <1>1, LastPart
<1>4. Min(Open) = k
  BY <1>3, MinOne
<1>5. PICK last : last = [f \in {Tails[k][2]} |-> off - Closed[Tails[k][1]]]
  OBVIOUS
<1>6. /\ text' = text /\ pc' = "ok" /\ calls' = calls + 1 /\ pos' = pos
      /\ uri' = Store(Closed, last)
  <2>1. Open # {}
    BY <1>3
  <2> QED
    BY <1>2, <1>4, <1>5, <2>1 DEF Return
<1>7. M \in [Field -> Nat] /\ \A f \in Field : Below(M[f], Room[f])
  BY <1>1, MeaningIs
<1>8. DOMAIN last = {Tails[k][2]} /\ last[Tails[k][2]] = M[Tails[k][2]]
  BY <1>3, <1>5
<1>9. \A f \in Field : Store(Closed, last)[f] = M[f]
  <2>1. \A f \in DOMAIN last \cap Field : Below(last[f], Room[f])
    BY <1>7, <1>8
  <2>2. \A f \in Field : Store(Closed, last)[f] = IF f \in DOMAIN last THEN last[f]
                                                  ELSE Closed[f]
    BY <1>3, <2>1, StoreFits
  <2> QED
    BY <1>3, <1>8, <2>2
<1>10. uri' = M
  <2>1. Store(Closed, last) = [f \in Field |-> Store(Closed, last)[f]]
    BY DEF Store
  <2> QED
    BY <1>6, <1>7, <1>9, <2>1
<1> QED
  BY <1>1, <1>6, <1>10

(* The URIs of a text, and the gaps between them. *)
LEMMA WrittenUri ==
  ASSUME text \in Texts, NEW o, NEW marks, IsWritten(text, o, marks)
  PROVE  /\ Len(marks) \in Nat /\ Len(text.tokens) \in Nat
         /\ \A k \in 1 .. Len(marks) : UriOf(text.tokens, o, marks[k])
         /\ Len(text.means) = Len(marks)
         /\ \A k \in 0 .. Len(marks) :
              /\ GapBegin(marks, k) \in Nat /\ GapBegin(marks, k) >= 1
              /\ GapEnd(text.tokens, marks, k) \in Nat
              /\ GapBegin(marks, k) <= GapEnd(text.tokens, marks, k)
              /\ Only(text.tokens, GapBegin(marks, k), GapEnd(text.tokens, marks, k), {" "})
<1>1. PICK t : t = text.tokens
  OBVIOUS
<1>2. t \in Seq(Token) /\ \A k \in DOMAIN t : t[k].n = 1 \/ t[k].c = "a"
  BY <1>1, TextsAssumption DEF Token
<1>3. PICK l \in Nat : l = Len(t)
  BY <1>2
<1>4. /\ o \in [1 .. l + 1 -> Nat] /\ \A k \in DOMAIN t : o[k + 1] = o[k] + t[k].n
      /\ marks \in Seq(Mark) /\ Len(marks) = Len(text.means)
      /\ \A k \in DOMAIN marks : /\ IsUri(t, marks[k])
                                 /\ Fits(Meaning(o, marks[k]), marks[k])
                                 /\ text.means[k] = Meaning(o, marks[k])
      /\ \A k \in 0 .. Len(marks) :
           /\ k \in 1 .. Len(marks) - 1 => GapBegin(marks, k) < GapEnd(t, marks, k)
           /\ GapBegin(marks, k) >= 1 /\ GapBegin(marks, k) <= GapEnd(t, marks, k)
           /\ Only(t, GapBegin(marks, k), GapEnd(t, marks, k), {" "})
  BY <1>1, <1>3 DEF IsWritten
<1>4a. marks \in Seq(Mark)
  BY <1>4
<1>5. PICK n \in Nat : n = Len(marks)
  BY ONLY <1>4a
<1>6. DOMAIN marks = 1 .. n /\ \A k \in 1 .. n : marks[k] \in Mark
  BY ONLY <1>4a, <1>5
<1>7. ASSUME NEW k \in 0 .. n
      PROVE  GapBegin(marks, k) \in Nat /\ GapEnd(t, marks, k) \in Nat
  <2>1. k = 0 \/ k \in 1 .. n
    BY ONLY <1>7
  <2>2. GapBegin(marks, k) \in Nat
    BY <1>6, <2>1, MarksNat DEF GapBegin
  <2>3. k = n \/ k + 1 \in 1 .. n
    BY ONLY <1>7
  <2>4. GapEnd(t, marks, k) \in Nat
    BY <1>3, <1>5, <1>6, <2>3, MarksNat DEF GapEnd
  <2> QED
    BY <2>2, <2>4
<1>8. ASSUME NEW k \in 1 .. n PROVE UriOf(t, o, marks[k])
  <2>1. k - 1 \in 0 .. n /\ k - 1 # n /\ (k - 1) + 1 = k /\ k \in 0 .. n /\ k # 0
    BY ONLY <1>8
  <2>2. marks[k].first >= 1
    <3>1. GapEnd(t, marks, k - 1) = marks[k].first
      BY <1>5, <2>1 DEF GapEnd
    <3>2. /\ GapBegin(marks, k - 1) >= 1 /\ GapBegin(marks, k - 1) <= marks[k].first
          /\ GapBegin(marks, k - 1) \in Nat /\ marks[k].first \in Nat
      BY <1>4, <1>5, <1>7, <2>1, <3>1
    <3> QED
      BY ONLY <3>2
  <2>3. marks[k].last = l + 1 \/ t[marks[k].last].c = " "
    <3>1. GapBegin(marks, k) = marks[k].last
      BY <2>1 DEF GapBegin
    <3>2. /\ Only(t, marks[k].last, GapEnd(t, marks, k), {" "})
          /\ marks[k].last \in Nat /\ GapEnd(t, marks, k) \in Nat
          /\ marks[k].last <= GapEnd(t, marks, k)
          /\ k \in 1 .. n - 1 => marks[k].last < GapEnd(t, marks, k)
      BY <1>4, <1>5, <1>7, <2>1, <3>1
    <3>3. k = n => GapEnd(t, marks, k) = l + 1
      BY <1>3, <1>5 DEF GapEnd
    <3>4. \/ marks[k].last = l + 1
          \/ marks[k].last \in marks[k].last .. GapEnd(t, marks, k) - 1
      <4>1. k = n \/ k \in 1 .. n - 1
        BY ONLY <1>5, <1>8
      <4>2. /\ marks[k].last \in Nat /\ GapEnd(t, marks, k) \in Nat
            /\ marks[k].last <= GapEnd(t, marks, k)
            /\ GapEnd(t, marks, k) = l + 1 \/ marks[k].last < GapEnd(t, marks, k)
        BY <3>2, <3>3, <4>1
      <4> QED
        BY ONLY <1>3, <4>2
    <3> QED
      BY <3>2, <3>4 DEF Only
  <2> QED
    BY <1>2, <1>3, <1>4, <1>6, <2>2, <2>3 DEF UriOf
<1> QED
  BY <1>1, <1>3, <1>4, <1>5, <1>6, <1>7, <1>8

(* A space between URIs is passed, and nothing else. *)
LEMMA GapKept ==
  ASSUME ReadInv, NEW o, NEW marks, IsWritten(text, o, marks), ListInv(o, marks),
         pc = "skip"
  PROVE  /\ calls \in 0 .. Len(marks)
         /\ Is(" ") => pos + 1 <= GapEnd(text.tokens, marks, calls)
         /\ AtEnd => calls = Len(marks)
         /\ ~AtEnd /\ ~Is(" ") => calls < Len(marks) /\ pos = marks[calls + 1].first
<1>1. text \in Texts /\ pos \in 1 .. Len(text.tokens) + 1
  BY DEF ReadInv, UriInv, TypeInv
<1>2. PICK l \in Nat : l = Len(text.tokens)
  BY <1>1, WrittenUri
<1>3. PICK n \in Nat : n = Len(marks)
  BY <1>1, WrittenUri
<1>4a. PICK g \in Nat : g = GapBegin(marks, calls)
  BY <1>1, <1>3, WrittenUri DEF ListInv
<1>4. PICK e \in Nat : e = GapEnd(text.tokens, marks, calls)
  BY <1>1, <1>3, WrittenUri DEF ListInv
<1>5. /\ calls \in 0 .. n /\ pos \in g .. e /\ g >= 1 /\ g \in Nat
      /\ Only(text.tokens, g, e, {" "})
  <2>1. calls \in 0 .. n /\ pos \in g .. e
    BY <1>3, <1>4, <1>4a DEF ListInv
  <2>2. /\ GapBegin(marks, calls) \in Nat /\ GapBegin(marks, calls) >= 1
        /\ Only(text.tokens, GapBegin(marks, calls), GapEnd(text.tokens, marks, calls), {" "})
    BY <1>1, <1>3, <2>1, WrittenUri
  <2> QED
    BY <1>4, <1>4a, <2>1, <2>2
<1>6. pos \in Nat /\ pos >= g /\ pos <= e /\ calls \in Nat /\ calls <= n
  <2>1. pos \in g .. e /\ calls \in 0 .. n
    BY <1>5
  <2> QED
    BY ONLY <1>3, <1>4, <1>4a, <2>1
<1>7. calls = n => e = l + 1
  BY <1>2, <1>3, <1>4 DEF GapEnd
<1>8. calls # n => /\ calls < n /\ e = marks[calls + 1].first
                  /\ e <= l /\ text.tokens[e].c = "a"
  <2> SUFFICES ASSUME calls # n
               PROVE  /\ calls < n /\ e = marks[calls + 1].first
                      /\ e <= l /\ text.tokens[e].c = "a"
    OBVIOUS
  <2>1. calls < n /\ calls + 1 \in 1 .. n
    BY ONLY <1>3, <1>6, calls # n
  <2>2. e = marks[calls + 1].first
    BY <1>3, <1>4 DEF GapEnd
  <2>3. PICK m : m = marks[calls + 1]
    OBVIOUS
  <2>4. UriOf(text.tokens, o, m)
    BY <1>1, <1>3, <2>1, <2>3, WrittenUri
  <2>5. m.first < m.scheme /\ m \in Mark
    BY <2>4, MarksAt
  <2>6. m.first \in m.first .. m.scheme - 1 /\ m.first \in m.first .. m.last - 1
    <3>1. /\ m.scheme < m.name /\ m.name <= m.at + 1 /\ m.at + 1 < m.host
          /\ m.host <= m.port /\ m.port <= m.path /\ m.path <= m.query
          /\ m.query <= m.last
      BY <2>4, MarksAt
    <3>2. /\ m.first \in Nat /\ m.scheme \in Nat /\ m.name \in Nat /\ m.at \in Nat
          /\ m.host \in Nat /\ m.port \in Nat /\ m.path \in Nat /\ m.query \in Nat
          /\ m.last \in Nat
      BY <2>5, MarksNat
    <3> QED
      BY ONLY <2>5, <3>1, <3>2
  <2>7. text.tokens[m.first].c = "a"
    BY <2>4, <2>6 DEF UriOf, IsUri, Only, Name
  <2>8. m.first \in 1 .. l
    BY <1>2, <2>4, <2>6, OffsetsAt
  <2>9. m.first <= l
    BY ONLY <1>2, <2>8
  <2> QED
    BY <2>1, <2>2, <2>3, <2>7, <2>9
<1>9. AtEnd <=> pos > l
  BY <1>2 DEF AtEnd
<1>10. Is(" ") => pos # e
  <2>1. pos = l + 1 => AtEnd
    BY ONLY <1>2, <1>6, <1>9
  <2> QED
    BY <1>7, <1>8, <2>1 DEF Is
<1>11. pos # e => Is(" ") /\ ~AtEnd
  <2> SUFFICES ASSUME pos # e PROVE Is(" ") /\ ~AtEnd
    OBVIOUS
  <2>1. pos \in g .. e - 1
    BY ONLY <1>4, <1>4a, <1>6, pos # e
  <2>2. text.tokens[pos].c = " "
    BY <1>5, <2>1 DEF Only
  <2>3. e <= l + 1
    BY ONLY <1>2, <1>4, <1>7, <1>8
  <2>4. ~(pos > l)
    BY ONLY <1>2, <1>4, <1>4a, <2>1, <2>3
  <2> QED
    BY <1>9, <2>2, <2>4 DEF Is
<1>12. Is(" ") => pos + 1 <= e
  <2>1. pos # e => pos + 1 <= e
    BY ONLY <1>4, <1>6
  <2> QED
    BY <1>10, <2>1
<1>13. AtEnd => calls = n
  <2>1. calls # n => ~(pos > l)
    BY ONLY <1>2, <1>4, <1>6, <1>8
  <2> QED
    BY <1>9, <2>1
<1>14. ~AtEnd /\ ~Is(" ") => calls < n /\ pos = marks[calls + 1].first
  <2>1. calls = n /\ pos = e => pos > l
    BY ONLY <1>2, <1>7
  <2> QED
    BY <1>8, <1>9, <1>11, <2>1
<1> QED
  BY <1>3, <1>4, <1>5, <1>12, <1>13, <1>14

(* A URI begins with nothing read of it. *)
LEMMA BeginsRead ==
  ASSUME NEW o, NEW m, UriOf(text.tokens, o, m), pos = m.first, off = 0, uri = Zero
  PROVE  Read(o, m)
<1>1. /\ m \in Mark /\ m.first < m.scheme /\ m.scheme < m.name
      /\ m.name <= m.at + 1 /\ m.at + 1 < m.host /\ m.host <= m.port
      /\ m.port <= m.path /\ m.path <= m.query /\ m.query <= m.last
  BY MarksAt
<1>2. /\ m.first \in Nat /\ m.scheme \in Nat /\ m.name \in Nat /\ m.at \in Nat
      /\ m.host \in Nat /\ m.port \in Nat /\ m.path \in Nat /\ m.query \in Nat
      /\ m.last \in Nat
  BY <1>1, MarksNat
<1>3. /\ pos \in m.first .. m.last /\ ~(pos > m.scheme + 1) /\ ~(m.name <= pos)
      /\ ~(pos > m.scheme) /\ ~(pos > m.at) /\ ~(pos > m.host) /\ ~(pos > m.port)
      /\ ~(pos > m.path) /\ ~(pos > m.query) /\ ~(pos > m.last)
  BY ONLY <1>1, <1>2, pos = m.first
<1>4. off = o[pos] - o[m.first]
  <2>1. o[m.first] \in Nat
    BY <1>3, OffsetsAt
  <2> QED
    BY ONLY <2>1, pos = m.first, off = 0
<1>5. \A f \in Field : uri[f] = 0 /\ Known(Meaning(o, m), m, pos, f) = 0
  BY <1>3, FieldsAre DEF Zero, Known, After
<1> QED
  BY <1>3, <1>4, <1>5 DEF Read

(* The parser starts before the first URI of a list, *)
LEMMA ReadInvInit ==
  ASSUME TextsWritten, Init
  PROVE  ReadInv
<1>1. UriInv /\ calls = 0 /\ pc = "skip" /\ pos = 1 /\ text \in Texts
  BY UriInvInit DEF Init
<1>2. ASSUME text.means # <<>> PROVE ListRead
  <2>1. PICK o, marks : IsWritten(text, o, marks)
    BY <1>1, <1>2 DEF TextsWritten, WrittenUris
  <2>2. PICK n \in Nat : n = Len(marks)
    BY <1>1, <2>1, WrittenUri
  <2>3. 0 \in 0 .. n
    BY ONLY <2>2
  <2>4. /\ GapBegin(marks, 0) = 1 /\ GapEnd(text.tokens, marks, 0) \in Nat
        /\ 1 <= GapEnd(text.tokens, marks, 0)
    <3>1. GapBegin(marks, 0) = 1
      BY DEF GapBegin
    <3> QED
      BY <1>1, <2>1, <2>2, <2>3, <3>1, WrittenUri
  <2>5. 1 \in 1 .. GapEnd(text.tokens, marks, 0)
    BY ONLY <2>4
  <2>6. ListInv(o, marks)
    BY <1>1, <2>2, <2>3, <2>4, <2>5 DEF ListInv
  <2> QED
    BY <2>1, <2>6 DEF ListRead
<1> QED
  BY <1>1, <1>2 DEF ReadInv

(* every step reads on as the marks say, *)
LEMMA ReadInvNext ==
  ASSUME ReadInv, [Next]_vars
  PROVE  ReadInv'
<1>1. UriInv' /\ UriInv
  BY UriInvNext DEF ReadInv
<1>2. text \in Texts /\ uri \in [Field -> Nat] /\ pc \in {"skip", "scan", "ok", "error"}
  BY <1>1 DEF UriInv, TypeInv
<1>3. text' = text /\ calls' \in Nat /\ (pc' = "ok" => calls' > 0)
  <2>1. PICK c \in Nat : c = calls
    BY DEF ReadInv
  <2>2. c + 1 \in Nat /\ c + 1 > 0
    BY ONLY <2>1
  <2>3. CASE Return
    BY <2>1, <2>2, <2>3 DEF Return
  <2>4. CASE \/ SchemeEnd \/ HostEnd \/ Authority \/ UserEnd \/ PathEnd \/ QueryEnd
             \/ OpaquePath \/ Path \/ NoEffect
    BY <2>1, <2>4 DEF SchemeEnd, HostEnd, Authority, UserEnd, PathEnd, QueryEnd,
                      OpaquePath, Path, NoEffect, Scan
  <2>5. CASE SkipSpace \/ NothingLeft \/ Begin \/ CallAgain
    BY <2>1, <2>5 DEF SkipSpace, NothingLeft, Begin, CallAgain
  <2>6. CASE UNCHANGED vars
    BY <2>1, <2>6 DEF vars, ReadInv
  <2> QED
    BY <2>3, <2>4, <2>5, <2>6 DEF Next
<1>4. ASSUME text.means # <<>> PROVE ListRead'
  <2>1. PICK o, marks : IsWritten(text, o, marks) /\ ListInv(o, marks)
    BY <1>4 DEF ReadInv, ListRead
  <2>2. PICK n \in Nat : n = Len(marks)
    BY <1>2, <2>1, WrittenUri
  <2>3. PICK c \in Nat : c = calls
    BY DEF ReadInv
  <2>4. SUFFICES ListInv(o, marks)'
    BY <1>3, <2>1 DEF ListRead
  <2>5. c \in 0 .. n
    BY <2>1, <2>2, <2>3 DEF ListInv
  <2>6. CASE UNCHANGED vars
    BY <2>1, <2>6 DEF vars, ListInv, Read, UserRead
  <2>7. CASE pc = "skip" /\ Next
    <3>1. /\ Is(" ") => pos + 1 <= GapEnd(text.tokens, marks, c)
          /\ AtEnd => c = n
          /\ ~AtEnd /\ ~Is(" ") => c < n /\ pos = marks[c + 1].first
      BY <2>1, <2>2, <2>3, <2>7, GapKept
    <3>2. SkipSpace \/ NothingLeft \/ Begin
      BY <2>7 DEF Next, SchemeEnd, HostEnd, Authority, UserEnd, PathEnd, QueryEnd,
                  OpaquePath, Path, NoEffect, Scan, Return, CallAgain
    <3>3. CASE SkipSpace
      <4>1. pos' = pos + 1 /\ pc' = "skip" /\ calls' = c /\ Is(" ")
        BY <2>3, <3>3 DEF SkipSpace
      <4>2. PICK g \in Nat : g = GapBegin(marks, c)
        BY <1>2, <2>1, <2>2, <2>5, WrittenUri
      <4>3. PICK e \in Nat : e = GapEnd(text.tokens, marks, c)
        BY <1>2, <2>1, <2>2, <2>5, WrittenUri
      <4>4. pos \in g .. e
        BY <2>1, <2>3, <2>7, <4>2, <4>3 DEF ListInv
      <4>5. pos + 1 <= e
        BY <3>1, <4>1, <4>3
      <4>6. pos + 1 \in g .. e
        BY ONLY <4>2, <4>3, <4>4, <4>5
      <4> QED
        BY <1>3, <2>2, <2>5, <4>1, <4>2, <4>3, <4>6 DEF ListInv
    <3>4. CASE NothingLeft
      BY <1>3, <2>2, <2>3, <2>5, <3>1, <3>4 DEF NothingLeft, ListInv
    <3>5. CASE Begin
      <4>1. /\ pc' = "scan" /\ UNCHANGED <<text, pos, off, uri, calls>>
            /\ c < n /\ pos = marks[c + 1].first
        BY <3>1, <3>5 DEF Begin
      <4>2. off = 0 /\ uri = Zero
        BY <1>1, <2>7 DEF UriInv, TypeInv
      <4>3. UriOf(text.tokens, o, marks[c + 1])
        <5>1. c + 1 \in 1 .. n
          BY ONLY <2>2, <2>3, <4>1
        <5> QED
          BY <1>2, <2>1, <2>2, <5>1, WrittenUri
      <4>4. Read(o, marks[c + 1])
        BY <4>1, <4>2, <4>3, BeginsRead
      <4>5. Read(o, marks[c + 1])'
        BY <4>1, <4>4 DEF Read, UserRead
      <4> QED
        BY <2>2, <2>3, <2>5, <4>1, <4>5 DEF ListInv
    <3> QED
      BY <3>2, <3>3, <3>4, <3>5
  <2>8. CASE pc = "scan" /\ Next
    <3>1. c < n /\ Read(o, marks[c + 1])
      BY <2>1, <2>2, <2>3, <2>8 DEF ListInv
    <3>2. c + 1 \in 1 .. n /\ c + 1 \in 0 .. n /\ c + 1 > 0
      BY ONLY <2>2, <2>3, <3>1
    <3>3. PICK m : m = marks[c + 1]
      OBVIOUS
    <3>4. UriOf(text.tokens, o, m) /\ Read(o, m)
      BY <1>2, <2>1, <2>2, <3>1, <3>2, <3>3, WrittenUri
    <3>5. pos < m.last \/ pos = m.last
      <4>1. pos \in m.first .. m.last
        BY <3>4 DEF Read
      <4>2. m.first \in Nat /\ m.last \in Nat
        BY <3>4, MarksAt, MarksNat
      <4> QED
        BY ONLY <4>1, <4>2
    <3>6. CASE pos < m.last
      <4>1. pc' = "scan" /\ calls' = c /\ Read(o, m)'
        BY <1>2, <2>3, <2>8, <3>4, <3>6, ReadKeeps
      <4> QED
        BY <1>3, <2>2, <2>5, <3>1, <3>3, <4>1 DEF ListInv
    <3>7. CASE pos = m.last
      <4>1. pc' = "ok" /\ calls' = c + 1 /\ pos' = pos /\ uri' = Meaning(o, m)
        BY <1>2, <2>3, <2>8, <3>4, <3>7, ReturnMeans
      <4> QED
        BY <2>2, <3>2, <3>3, <3>7, <4>1 DEF ListInv
    <3> QED
      BY <3>5, <3>6, <3>7
  <2>9. CASE pc = "ok" /\ Next
    <3>1. CallAgain
      BY <2>9 DEF Next, SkipSpace, NothingLeft, Begin, SchemeEnd, HostEnd, Authority,
                  UserEnd, PathEnd, QueryEnd, OpaquePath, Path, NoEffect, Scan, Return
    <3>2. pc' = "skip" /\ pos' = pos /\ calls' = c
      BY <2>3, <3>1 DEF CallAgain
    <3>3. c > 0 /\ pos = marks[c].last
      BY <2>1, <2>3, <2>9 DEF ListInv
    <3>4. pos = GapBegin(marks, c)
      BY <3>3 DEF GapBegin
    <3>5. pos \in GapBegin(marks, c) .. GapEnd(text.tokens, marks, c)
      <4>1. /\ GapBegin(marks, c) \in Nat /\ GapEnd(text.tokens, marks, c) \in Nat
            /\ GapBegin(marks, c) <= GapEnd(text.tokens, marks, c)
        BY <1>2, <2>1, <2>2, <2>5, WrittenUri
      <4> QED
        BY ONLY <3>4, <4>1
    <3> QED
      BY <1>3, <2>2, <2>5, <3>2, <3>5 DEF ListInv
  <2>10. CASE pc = "error" /\ Next
    BY <2>10 DEF Next, SkipSpace, NothingLeft, Begin, SchemeEnd, HostEnd, Authority,
                 UserEnd, PathEnd, QueryEnd, OpaquePath, Path, NoEffect, Scan, Return,
                 CallAgain
  <2> QED
    BY <1>2, <2>6, <2>7, <2>8, <2>9, <2>10
<1> QED
  BY <1>1, <1>3, <1>4 DEF ReadInv

(* and so it always reads what is written. *)
LEMMA ReadInvAlways ==
  ASSUME TextsWritten
  PROVE  Spec => []ReadInv
<1>1. Init => ReadInv
  BY ReadInvInit
<1>2. ReadInv /\ [Next]_vars => ReadInv'
  BY ReadInvNext
<1> QED
  BY <1>1, <1>2, PTL DEF Spec

(* What is recorded of each URI of a list is what it means. *)
THEOREM UrisParsedAsWritten ==
  ASSUME TextsWritten
  PROVE  Spec => []ParsedAsWritten
<1>1. ReadInv => ParsedAsWritten
  <2> SUFFICES ASSUME ReadInv, pc = "ok", calls <= Len(text.means)
               PROVE  uri = text.means[calls]
    BY DEF ParsedAsWritten
  <2>1. text \in Texts /\ calls \in Nat /\ calls > 0
    BY DEF ReadInv, UriInv, TypeInv
  <2>2. text.means # <<>>
    <3> SUFFICES ASSUME text.means = <<>> PROVE FALSE
      OBVIOUS
    <3>1. Len(text.means) = 0
      OBVIOUS
    <3> QED
      BY ONLY <2>1, <3>1, calls <= Len(text.means)
  <2>3. PICK o, marks : IsWritten(text, o, marks) /\ ListInv(o, marks)
    BY <2>2 DEF ReadInv, ListRead
  <2>4. PICK n \in Nat : n = Len(marks)
    BY <2>1, <2>3, WrittenUri
  <2>5. uri = Meaning(o, marks[calls]) /\ calls \in 0 .. n
    BY <2>3, <2>4 DEF ListInv
  <2>6. calls \in 1 .. n
    BY ONLY <2>1, <2>4, <2>5
  <2> QED
    <3>1. \A k \in DOMAIN marks : text.means[k] = Meaning(o, marks[k])
      BY <2>3 DEF IsWritten
    <3>2. calls \in DOMAIN marks
      <4>1. marks \in Seq(Mark)
        BY <2>3 DEF IsWritten
      <4> QED
        BY ONLY <2>4, <2>6, <4>1
    <3>3. text.means[calls] = Meaning(o, marks[calls])
      BY ONLY <3>1, <3>2
    <3> QED
      BY <2>5, <3>3
<1> QED
  BY <1>1, ReadInvAlways, PTL

(* The loop over a list of URIs ends at its end. *)
THEOREM ListIsParsed ==
  ASSUME TextsWritten
  PROVE  Spec => []EveryUriParsed
<1>1. ReadInv => EveryUriParsed
  <2> SUFFICES ASSUME ReadInv, pc = "error" PROVE calls >= Len(text.means)
    BY DEF EveryUriParsed
  <2>1. text \in Texts /\ calls \in Nat
    BY DEF ReadInv, UriInv, TypeInv
  <2>2. CASE text.means = <<>>
    <3>1. Len(text.means) = 0
      BY <2>2
    <3> QED
      BY ONLY <2>1, <3>1
  <2>3. CASE text.means # <<>>
    <3>1. PICK o, marks : IsWritten(text, o, marks) /\ ListInv(o, marks)
      BY <2>3 DEF ReadInv, ListRead
    <3>2. calls = Len(text.means)
      BY <2>1, <3>1, WrittenUri DEF ListInv
    <3> QED
      BY ONLY <2>1, <3>2
  <2> QED
    BY <2>2, <2>3
<1> QED
  BY <1>1, ReadInvAlways, PTL
=============================================================================
