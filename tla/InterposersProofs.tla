------------------------- MODULE InterposersProofs -------------------------
(***************************************************************************)
(* What wlroots and wayvnc are promised by the programs put between them   *)
(* and the next one: for any options, however many, and any order and      *)
(* number of requests.                                                     *)
(***************************************************************************)
EXTENDS Interposers, SequenceTheorems, WellFoundedInduction, TLAPS

-----------------------------------------------------------------------------
(* The shim.  A blocked interface is never bound, so wayvnc cannot have    *)
(* what the newer protocol needs; every other request is made and got as   *)
(* often as it was sent, so wayvnc has screencopy if it asked for it.      *)

Blocks == {Bind(i) : i \in BLOCKED}

ShimInv ==
  /\ sent \in [Requests -> Nat] /\ made \in [Requests -> Nat]
  /\ got = made
  /\ wild = FALSE
  /\ \A r \in Requests : made[r] = IF r \in Blocks THEN 0 ELSE sent[r]
  /\ capture \in {"none", "screencopy", "impossible"}
  /\ capture = "screencopy" => sent[Bind(Screencopy)] > 0
  /\ capture = "impossible" => sent[Bind(Screencopy)] = 0 /\ announced = {}

LEMMA RequestFacts ==
  /\ \A i \in Interfaces : /\ Bind(i) \in Requests
                           /\ Bind(i).opcode = 0 /\ Bind(i).class = "wl_registry"
                           /\ Bind(i).arg = i /\ i # NotString
  /\ \A r \in Others : r \in Requests /\ r.class # "wl_registry"
  /\ BLOCKED \subseteq Interfaces /\ BLOCKED # {}
  /\ Screencopy \in Interfaces \ BLOCKED
  /\ Blocks \subseteq Requests /\ Bind(Screencopy) \in Requests \ Blocks
  /\ \A r \in Requests :
       r \in Blocks <=> r.opcode = 0 /\ r.class = "wl_registry" /\ r.arg \in BLOCKED
<1>1. /\ BLOCKED \subseteq Interfaces /\ BLOCKED # {}
      /\ Screencopy \in Interfaces \ BLOCKED
  BY DEF BLOCKED, Interfaces, Screencopy
<1>2. \A i \in Interfaces : /\ Bind(i) \in Requests
                            /\ Bind(i).opcode = 0 /\ Bind(i).class = "wl_registry"
                            /\ Bind(i).arg = i /\ i # NotString
  BY WayvncShimAssumption DEF Requests, Bind, Request
<1>3. \A r \in Others : r \in Requests /\ r.class # "wl_registry"
  BY DEF Requests, Others, Request
<1>4. Blocks \subseteq Requests /\ Bind(Screencopy) \in Requests \ Blocks
  BY <1>1, <1>2 DEF Blocks
<1>5. ASSUME NEW r \in Requests
      PROVE  r \in Blocks <=> r.opcode = 0 /\ r.class = "wl_registry" /\ r.arg \in BLOCKED
  <2>1. CASE r \in Others
    BY <1>1, <1>2, <1>3, <2>1 DEF Blocks
  <2>2. CASE r \notin Others
    <3>1. PICK i \in Interfaces : r = Bind(i)
      BY <2>2 DEF Requests
    <3> QED BY <1>1, <1>2, <3>1 DEF Blocks
  <2> QED BY <2>1, <2>2
<1> QED BY <1>1, <1>2, <1>3, <1>4, <1>5

(* One request: it is counted on both sides or, if it is blocked, on none. *)
LEMMA SendKeeps ==
  ASSUME ShimInv, NEW r \in Requests,
         r.class = "wl_registry" => r.arg # NotString,
         capture # "impossible", Send(r)
  PROVE  ShimInv'
<1>1. /\ sent' = [sent EXCEPT ![r] = @ + 1] /\ capture' = capture
      /\ wild' = FALSE
      /\ sent' \in [Requests -> Nat]
  <2>1. wild' = FALSE
    BY DEF Send, wl_proxy_marshal_array_flags, ShimInv
  <2> QED BY <2>1 DEF Send, ShimInv
<1>2. CASE r \in Blocks
  <2>1. made' = made /\ got' = got
    BY <1>2, RequestFacts DEF Send, wl_proxy_marshal_array_flags
  <2>2. r # Bind(Screencopy)
    BY <1>2, RequestFacts
  <2> QED BY <1>1, <1>2, <2>1, <2>2, RequestFacts DEF ShimInv
<1>3. CASE r \notin Blocks
  <2>1. /\ made' = [made EXCEPT ![r] = @ + 1]
        /\ got' = [got EXCEPT ![r] = @ + 1]
    BY <1>3, RequestFacts DEF Send, wl_proxy_marshal_array_flags
  <2>2. \A q \in Requests : made'[q] = IF q \in Blocks THEN 0 ELSE sent'[q]
    BY <1>1, <1>3, <2>1 DEF ShimInv
  <2>3. capture' = "screencopy" => sent'[Bind(Screencopy)] > 0
    BY <1>1, RequestFacts DEF ShimInv
  <2> QED BY <1>1, <2>1, <2>2, <2>3 DEF ShimInv
<1> QED BY <1>2, <1>3

LEMMA ShimNextKeeps == ShimInv /\ ShimNext => ShimInv'
<1> SUFFICES ASSUME ShimInv, ShimNext PROVE ShimInv'
  OBVIOUS
<1>1. ASSUME NEW i \in Interfaces, Announce(i) PROVE ShimInv'
  BY <1>1 DEF Announce, Running, ShimInv
<1>2. ASSUME NEW i \in Interfaces, Global(i) PROVE ShimInv'
  <2>1. Send(Bind(i)) /\ capture # "impossible"
    BY <1>2 DEF Global, ShimInv
  <2> QED BY <2>1, RequestFacts, SendKeeps
<1>3. ASSUME NEW r \in Others, OtherRequest(r) PROVE ShimInv'
  BY <1>3, RequestFacts, SendKeeps DEF OtherRequest, Running
<1>4. CASE Decide
  <2>1. \E i \in BLOCKED : ~Has(i)
    BY RequestFacts DEF ShimInv, Has, Blocks
  <2>2. capture' = IF Has(Screencopy) THEN "screencopy" ELSE "impossible"
    BY <1>4, <2>1 DEF Decide
  <2>3. made[Bind(Screencopy)] = sent[Bind(Screencopy)]
    BY RequestFacts DEF ShimInv
  <2>4. sent[Bind(Screencopy)] \in Nat
    BY RequestFacts DEF ShimInv
  <2> QED BY <1>4, <2>2, <2>3, <2>4 DEF Decide, ShimInv, Has
<1>5. CASE Again
  <2>1. Nothing \in [Requests -> Nat] /\ \A r \in Requests : Nothing[r] = 0
    BY DEF Nothing
  <2> QED BY <1>5, <2>1 DEF Again, ShimInv
<1> QED BY <1>1, <1>2, <1>3, <1>4, <1>5 DEF ShimNext

(* Whatever the order and the number of globals and requests, wayvnc       *)
(* captures by screencopy if it bound that; its binds of the newer         *)
(* protocol get nowhere, every other request arrives and gives it its      *)
(* object, and no request but a bind is searched for a name.               *)
THEOREM WayvncFallsBack == Spec => []FallsBack
<1>1. Init => ShimInv
  <2>1. Nothing \in [Requests -> Nat] /\ \A r \in Requests : Nothing[r] = 0
    BY DEF Nothing
  <2> QED BY <2>1 DEF Init, ShimInit, ShimInv
<1>2. ShimInv /\ [Next]_vars => ShimInv'
  <2>1. ShimInv /\ UNCHANGED shimVars => ShimInv'
    BY DEF ShimInv, shimVars
  <2> QED BY <2>1, ShimNextKeeps DEF Next, vars
<1>3. ShimInv => FallsBack
  <2> SUFFICES ASSUME ShimInv PROVE FallsBack
    OBVIOUS
  <2>1. capture \in {"none", IF sent[Bind(Screencopy)] > 0 THEN "screencopy"
                                                         ELSE "impossible"}
    BY DEF ShimInv
  <2>2. \A i \in BLOCKED : made[Bind(i)] = 0 /\ got[Bind(i)] = 0
    BY RequestFacts DEF ShimInv, Blocks
  <2>3. \A r \in Requests \ Blocks : made[r] = sent[r] /\ got[r] = sent[r]
    BY DEF ShimInv
  <2> QED BY <2>1, <2>2, <2>3 DEF FallsBack, Blocks, ShimInv
<1> QED BY <1>1, <1>2, <1>3, PTL DEF Spec

-----------------------------------------------------------------------------
LEMMA Smallest ==
  ASSUME NEW P \in SUBSET Nat, P # {}
  PROVE  \E x \in P : \A j \in P : x <= j
<1>1. PICK x \in P : \A y \in P : ~(<<y, x>> \in OpToRel(<, Nat))
  BY NatLessThanWellFounded, WFMin
<1>2. ASSUME NEW y \in P, y < x PROVE FALSE
  <2>1. <<y, x>> \in Nat \X Nat
    OBVIOUS
  <2>2. <<y, x>>[1] < <<y, x>>[2]
    BY <1>2
  <2>3. <<y, x>> \in OpToRel(<, Nat)
    BY <2>1, <2>2, Zenon DEF OpToRel
  <2> QED BY <1>1, <2>3, Zenon
<1>3. \A y \in P : x <= y
  BY <1>2
<1> QED BY <1>3

-----------------------------------------------------------------------------
(* How PRoot reads a line.  Understood is a recursive function; that there *)
(* is a function with its equations follows by building one from the end   *)
(* of the line, a word at a time.                                          *)

Ended == [rootfs |-> "/", binds |-> {}, command |-> <<>>]

(* What is read from word i on, when f says what is read from later ones. *)
Read(line, f, i) ==
  IF i > Len(line)
  THEN [rootfs |-> "/", binds |-> {}, command |-> <<>>]
  ELSE IF line[i] \in {"-0", "--link2symlink"} THEN f[i + 1]
  ELSE IF line[i] \in {"-r", "-b"} /\ i < Len(line)
  THEN IF line[i] = "-r"
       THEN [f[i + 2] EXCEPT !.rootfs = line[i + 1]]
       ELSE [f[i + 2] EXCEPT !.binds = @ \cup {line[i + 1]}]
  ELSE [rootfs |-> "/", binds |-> {}, command |-> SubSeq(line, i, Len(line))]

Reads(line, f) == f = [i \in 2 .. Len(line) + 2 |-> Read(line, f, i)]

LEMMA ReadLater ==
  ASSUME NEW line, NEW f, NEW g, NEW i, Len(line) \in Nat, i \in Nat,
         i <= Len(line) => f[i + 1] = g[i + 1],
         i < Len(line) => f[i + 2] = g[i + 2]
  PROVE  Read(line, f, i) = Read(line, g, i)
<1>1. CASE i > Len(line)
  BY <1>1 DEF Read
<1>2. CASE i = Len(line)
  BY <1>2 DEF Read
<1>3. CASE i < Len(line)
  <2>1. f[i + 1] = g[i + 1] /\ f[i + 2] = g[i + 2]
    BY <1>3
  <2>2. CASE line[i] \in {"-0", "--link2symlink"}
    BY <1>3, <2>1, <2>2 DEF Read
  <2>3. CASE line[i] \notin {"-0", "--link2symlink"}
    BY <1>3, <2>1, <2>3, Zenon DEF Read
  <2> QED BY <2>2, <2>3
<1> QED BY <1>1, <1>2, <1>3

LEMMA ReadExists ==
  ASSUME NEW line, Len(line) \in Nat
  PROVE  \E f : Reads(line, f)
<1> DEFINE n == Len(line) + 2
           Part(g, k) == g = [i \in n - k .. n |-> Read(line, g, i)]
           Missed == {k \in 0 .. n - 2 : ~\E g : Part(g, k)}
<1>1. n \in Nat /\ n >= 2
  OBVIOUS
<1>2. 0 \notin Missed
  <2> DEFINE g == [i \in n - 0 .. n |-> Ended]
  <2>1. \A i \in n - 0 .. n : i > Len(line)
    OBVIOUS
  <2>2. \A i \in n - 0 .. n : Read(line, g, i) = Ended
    BY <2>1 DEF Read, Ended
  <2>3. g = [i \in n - 0 .. n |-> Read(line, g, i)]
    BY <2>2
  <2> QED BY <2>3
<1>3. ASSUME NEW k \in 0 .. n - 2, k # 0, k - 1 \notin Missed
      PROVE  k \notin Missed
  <2>1. k - 1 \in 0 .. n - 2
    BY <1>1, <1>3
  <2>2. PICK g : g = [i \in n - (k - 1) .. n |-> Read(line, g, i)]
    BY <1>3, <2>1
  <2> DEFINE h == [i \in n - k .. n |-> IF i = n - k THEN Read(line, g, i) ELSE g[i]]
  <2>3. \A i \in n - (k - 1) .. n : h[i] = g[i] /\ g[i] = Read(line, g, i)
    <3>1. \A i \in n - (k - 1) .. n : i \in n - k .. n /\ i # n - k
      BY <1>1
    <3>2. \A i \in n - (k - 1) .. n : h[i] = g[i]
      BY <3>1
    <3> QED BY <2>2, <3>2
  <2>4. h[n - k] = Read(line, g, n - k)
    BY <1>1
  <2>5. DOMAIN h = n - k .. n /\ h = [i \in n - k .. n |-> h[i]]
    OBVIOUS
  <2> HIDE DEF h
  <2>6. ASSUME NEW i \in n - k .. n PROVE h[i] = Read(line, h, i)
    <3>1. /\ i \in Nat
          /\ i <= Len(line) => i + 1 \in n - (k - 1) .. n
          /\ i < Len(line) => i + 2 \in n - (k - 1) .. n
      BY <1>1
    <3>2. Read(line, g, i) = Read(line, h, i)
      BY <2>3, <3>1, ReadLater
    <3>3. i = n - k \/ i \in n - (k - 1) .. n
      BY <1>1
    <3> QED BY <2>3, <2>4, <3>2, <3>3
  <2>7. h = [i \in n - k .. n |-> Read(line, h, i)]
    BY <2>5, <2>6
  <2> QED BY <2>7
<1>4. Missed = {}
  <2> SUFFICES ASSUME Missed # {} PROVE FALSE
    OBVIOUS
  <2>1. Missed \in SUBSET Nat
    BY <1>1
  <2> HIDE DEF Missed
  <2>2. PICK k \in Missed : \A j \in Missed : k <= j
    BY <2>1, Smallest
  <2>3. k \in 0 .. n - 2 /\ k # 0
    BY <1>2, <2>2 DEF Missed
  <2>4. k - 1 \in Missed
    BY <1>3, <2>2, <2>3
  <2>5. ~(k <= k - 1)
    BY <2>3
  <2> QED BY <2>2, <2>4, <2>5
<1>5. PICK g : Part(g, n - 2)
  <2>1. n - 2 \in 0 .. n - 2
    BY <1>1
  <2> QED BY <1>4, <2>1
<1>6. n - (n - 2) = 2
  BY <1>1
<1> QED BY <1>5, <1>6 DEF Reads

LEMMA UnderstoodReads ==
  ASSUME NEW line, Len(line) \in Nat
  PROVE  \E f : Reads(line, f) /\ Understood(line) = f[2]
<1> DEFINE f == CHOOSE g : Reads(line, g)
<1>1. Reads(line, f)
  BY ReadExists
<1>2. Understood(line) = f[2]
  BY DEF Understood, Reads, Read
<1> QED BY <1>1, <1>2

Reading(r, b, c) == [rootfs |-> r, binds |-> b, command |-> c]
Bound(reading, w) == [reading EXCEPT !.binds = @ \cup {w}]

LEMMA BindAdded ==
  ASSUME NEW r, NEW b, NEW c, NEW w
  PROVE  Bound(Reading(r, b, c), w) = Reading(r, b \cup {w}, c)
<1> DEFINE d == b \cup {w}
           n == [rootfs |-> r, binds |-> b, command |-> c]
<1>1. n.binds \cup {w} = d
  OBVIOUS
<1>2. [n EXCEPT !.binds = d] = [rootfs |-> r, binds |-> d, command |-> c]
  <2> HIDE DEF d
  <2> QED OBVIOUS
<1> HIDE DEF n
<1>3. [n EXCEPT !.binds = @ \cup {w}] = [n EXCEPT !.binds = n.binds \cup {w}]
  OBVIOUS
<1> HIDE DEF d
<1>4. [n EXCEPT !.binds = @ \cup {w}] = [n EXCEPT !.binds = d]
  BY <1>1, <1>3
<1>5. [n EXCEPT !.binds = @ \cup {w}] = [rootfs |-> r, binds |-> d, command |-> c]
  BY <1>2, <1>4
<1> QED BY <1>5 DEF n, d, Reading, Bound

LEMMA RootSet ==
  ASSUME NEW r, NEW b, NEW c, NEW w
  PROVE  [Reading(r, b, c) EXCEPT !.rootfs = w] = Reading(w, b, c)
BY DEF Reading

(* The line of the wrapper: after three options come five binds, and the   *)
(* first word that is none is the command.                                 *)
LEMMA ProotReads ==
  ASSUME NEW line, Len(line) \in Nat, Len(line) >= 17,
         line[2] = "-0", line[3] = "--link2symlink", line[4] = "-r",
         line[6] = "-b", line[8] = "-b", line[10] = "-b", line[12] = "-b", line[14] = "-b",
         line[16] = "/usr/bin/Xwayland"
  PROVE  Understood(line) =
           Reading(line[5], {line[7], line[9], line[11], line[13], line[15]},
                   SubSeq(line, 16, Len(line)))
<1> DEFINE c == SubSeq(line, 16, Len(line))
           F == {line[7], line[9], line[11], line[13], line[15]}
<1>1. PICK f : Reads(line, f) /\ Understood(line) = f[2]
  BY UnderstoodReads
<1>2. \A i \in 2 .. 16 : f[i] = Read(line, f, i) /\ i < Len(line)
  <2> SUFFICES ASSUME NEW i \in 2 .. 16 PROVE f[i] = Read(line, f, i) /\ i < Len(line)
    OBVIOUS
  <2>1. i \in 2 .. Len(line) + 2 /\ i < Len(line)
    OBVIOUS
  <2>2. f = [k \in 2 .. Len(line) + 2 |-> Read(line, f, k)]
    BY <1>1 DEF Reads
  <2> QED BY <2>1, <2>2, Zenon
<1>3. f[16] = Reading("/", {}, c)
  <2>1. f[16] = Read(line, f, 16) /\ 16 < Len(line)
    BY <1>2
  <2> QED BY <2>1 DEF Read, Reading
<1>4. ASSUME NEW i \in 2 .. 15, line[i] = "-b" PROVE f[i] = Bound(f[i + 2], line[i + 1])
  <2>1. f[i] = Read(line, f, i) /\ i < Len(line) /\ ~(i > Len(line))
    <3>1. i \in 2 .. 16
      OBVIOUS
    <3>2. f[i] = Read(line, f, i) /\ i < Len(line)
      BY <1>2, <3>1
    <3> QED BY <3>1, <3>2
  <2> QED BY <1>4, <2>1 DEF Read, Bound
<1>5. /\ f[14] = Bound(f[16], line[15]) /\ f[12] = Bound(f[14], line[13])
      /\ f[10] = Bound(f[12], line[11]) /\ f[8] = Bound(f[10], line[9])
      /\ f[6] = Bound(f[8], line[7])
  BY <1>4
<1> HIDE DEF c
<1>6. f[14] = Reading("/", {} \cup {line[15]}, c)
  BY <1>3, <1>5, BindAdded
<1>7. f[12] = Reading("/", ({} \cup {line[15]}) \cup {line[13]}, c)
  BY <1>5, <1>6, BindAdded
<1>8. f[10] = Reading("/", (({} \cup {line[15]}) \cup {line[13]}) \cup {line[11]}, c)
  BY <1>5, <1>7, BindAdded
<1>9. f[8] = Reading("/", ((({} \cup {line[15]}) \cup {line[13]}) \cup {line[11]}) \cup {line[9]}, c)
  BY <1>5, <1>8, BindAdded
<1>10. f[6] = Reading("/", F, c)
  <2>1. f[6] = Reading("/", (((({} \cup {line[15]}) \cup {line[13]}) \cup {line[11]})
                              \cup {line[9]}) \cup {line[7]}, c)
    BY <1>5, <1>9, BindAdded
  <2>2. (((({} \cup {line[15]}) \cup {line[13]}) \cup {line[11]})
           \cup {line[9]}) \cup {line[7]} = F
    OBVIOUS
  <2> QED BY <2>1, <2>2
<1> HIDE DEF F
<1>11. f[4] = Reading(line[5], F, c)
  <2>1. f[4] = Read(line, f, 4) /\ 4 < Len(line)
    BY <1>2
  <2>2. Read(line, f, 4) = [f[6] EXCEPT !.rootfs = line[5]]
    BY <2>1 DEF Read
  <2> QED BY <1>10, <2>1, <2>2, RootSet
<1>12. f[3] = f[4]
  <2>1. f[3] = Read(line, f, 3) /\ 3 < Len(line)
    BY <1>2
  <2> QED BY <2>1 DEF Read
<1>13. f[2] = f[3]
  <2>1. f[2] = Read(line, f, 2) /\ 2 < Len(line)
    BY <1>2
  <2> QED BY <2>1 DEF Read
<1> QED BY <1>1, <1>11, <1>12, <1>13 DEF F, c

-----------------------------------------------------------------------------
(* The vector.                                                             *)

(* What main() puts in front of the options of wlroots. *)
Front ==
  <<"PROOT_BIN", "-0", "--link2symlink", "-r", "PROOT_ROOTFS",
    "-b", "/dev", "-b", "/proc", "-b", "/sys", "-b", bind_cache,
    "-b", bind_xdg, "/usr/bin/Xwayland", "-ac">>

Words ==
  {"PROOT_BIN", "-0", "--link2symlink", "-r", "PROOT_ROOTFS", "-b", "/dev", "/proc",
   "/sys", "CACHE_DIR", "CACHE_DIR:/tmp", "XDG_DIR", "XDG_DIR:/tmp/xdg-runtime",
   "/usr/bin/Xwayland", "-ac"} \cup Options

LEMMA WordsFacts == NULL \notin Words /\ bind_cache \in Words /\ bind_xdg \in Words
BY XwaylandArgsAssumption DEF Words, NULL, bind_cache, bind_xdg

LEMMA FrontFacts ==
  /\ Front \in Seq(Words) /\ Len(Front) = 17
  /\ Front[1] = "PROOT_BIN" /\ Front[2] = "-0" /\ Front[3] = "--link2symlink"
  /\ Front[4] = "-r" /\ Front[5] = "PROOT_ROOTFS"
  /\ Front[6] = "-b" /\ Front[7] = "/dev" /\ Front[8] = "-b" /\ Front[9] = "/proc"
  /\ Front[10] = "-b" /\ Front[11] = "/sys" /\ Front[12] = "-b" /\ Front[13] = bind_cache
  /\ Front[14] = "-b" /\ Front[15] = bind_xdg
  /\ Front[16] = "/usr/bin/Xwayland" /\ Front[17] = "-ac"
<1> DEFINE c == bind_cache
           x == bind_xdg
<1>1. c \in Words /\ x \in Words
  BY WordsFacts
<1> HIDE DEF c, x
<1>2. Front = <<"PROOT_BIN", "-0", "--link2symlink", "-r", "PROOT_ROOTFS",
    "-b", "/dev", "-b", "/proc", "-b", "/sys", "-b", c,
    "-b", x, "/usr/bin/Xwayland", "-ac">>
  BY DEF Front, c, x
<1>3. Front \in Seq(Words) /\ Len(Front) = 17
  BY <1>1, <1>2 DEF Words
<1> QED BY <1>2, <1>3 DEF c, x

(* The command line, up to the first NULL, is all but the last word. *)
LEMMA CommandLineIs ==
  ASSUME NEW line \in Seq(Words), args = line \o <<NULL>>
  PROVE  CommandLine = line /\ Len(args) = Len(line) + 1
<1> DEFINE n == Len(line)
           W == Words \cup {NULL}
           ends == {i \in DOMAIN args : args[i] = NULL}
<1>1. line \in Seq(W) /\ <<NULL>> \in Seq(W) /\ Len(<<NULL>>) = 1 /\ <<NULL>>[1] = NULL
      /\ n \in Nat
  OBVIOUS
<1>2. /\ args \in Seq(W) /\ Len(args) = n + 1
      /\ \A i \in 1 .. n + 1 : args[i] = IF i <= n THEN line[i] ELSE <<NULL>>[i - n]
  <2> DEFINE last == <<NULL>>
  <2>1. last \in Seq(W) /\ Len(last) = 1 /\ args = line \o last
    BY <1>1
  <2> HIDE DEF last, W
  <2>2. /\ line \o last \in Seq(W) /\ Len(line \o last) = Len(line) + Len(last)
        /\ \A i \in 1 .. Len(line) + Len(last) :
             (line \o last)[i] = IF i <= Len(line) THEN line[i] ELSE last[i - Len(line)]
    BY <1>1, <2>1, ConcatProperties DEF W
  <2> QED BY <2>1, <2>2 DEF last
<1>3. /\ \A i \in 1 .. n : args[i] = line[i] /\ args[i] \in Words
      /\ args[n + 1] = NULL
  <2>1. \A i \in 1 .. n : args[i] = line[i]
    BY <1>1, <1>2
  <2>2. n + 1 \in 1 .. n + 1 /\ ~(n + 1 <= n) /\ (n + 1) - n = 1
    BY <1>1
  <2>3. args[n + 1] = NULL
    BY <1>1, <1>2, <2>2
  <2> QED BY <2>1, <2>3
<1>4. ends = {n + 1}
  <2>1. DOMAIN args = 1 .. n + 1
    BY <1>1, <1>2
  <2>2. \A i \in 1 .. n + 1 : i = n + 1 \/ i \in 1 .. n
    BY <1>1
  <2>3. n + 1 \in 1 .. n + 1
    BY <1>1
  <2> QED BY <1>3, <2>1, <2>2, <2>3, WordsFacts
<1> DEFINE end == CHOOSE i \in ends : \A j \in ends : i <= j
<1> HIDE DEF ends
<1>5. end = n + 1
  <2>1. n + 1 <= n + 1
    BY <1>1
  <2> QED BY <1>4, <2>1
<1> HIDE DEF end
<1>6. CommandLine = SubSeq(args, 1, n)
  <2>1. CommandLine = SubSeq(args, 1, end - 1)
    BY DEF CommandLine, end, ends
  <2>2. end - 1 = n
    BY <1>1, <1>5
  <2> QED BY <2>1, <2>2
<1>7. SubSeq(args, 1, n) = line
  <2> DEFINE t == SubSeq(args, 1, n)
  <2>1. \A i \in 1 .. n : args[i] \in Words
    BY <1>3
  <2>2. 1 \in Int /\ n \in Int
    BY <1>1
  <2>3. /\ t \in Seq(Words) /\ Len(t) = IF 1 <= n THEN n - 1 + 1 ELSE 0
        /\ \A i \in 1 .. n - 1 + 1 : t[i] = args[1 + i - 1]
    BY <2>1, <2>2, SubSeqProperties
  <2>4. Len(t) = Len(line)
    BY <1>1, <2>3
  <2>5. \A i \in 1 .. Len(t) : t[i] = line[i]
    <3>1. \A i \in 1 .. n : i \in 1 .. n - 1 + 1 /\ 1 + i - 1 = i
      BY <1>1
    <3> QED BY <1>3, <2>3, <2>4, <3>1
  <2> HIDE DEF t
  <2> QED BY <2>3, <2>4, <2>5, SeqEqual DEF t
<1> QED BY <1>2, <1>6, <1>7

-----------------------------------------------------------------------------
(* The wrapper.                                                            *)

Started == xpc \in {"main", "built", "running"}
Built == xpc \in {"built", "running"}

WrapperInv ==
  /\ Len(args) <= room
  /\ xpc \in {"none", "main"} => args = <<>> /\ room = 0
  /\ Started => /\ env \in Environments
                /\ argv # <<>> /\ argv \in Seq(Options \cup {"Xwayland"})
                /\ Tail(argv) \in Seq(Options)
  /\ Built => /\ \A v \in DOMAIN env : env[v] # "unset"
              /\ args = (Front \o Tail(argv)) \o <<NULL>>

LEMMA LineFacts ==
  ASSUME NEW o \in Seq(Options)
  PROVE  /\ Front \o o \in Seq(Words) /\ Len(Front \o o) = 17 + Len(o) /\ Len(o) \in Nat
         /\ \A i \in 1 .. 17 : (Front \o o)[i] = Front[i]
         /\ \A i \in 1 .. Len(o) : (Front \o o)[17 + i] = o[i]
         /\ o \in Seq(Words)
<1>1. o \in Seq(Words) /\ Len(o) \in Nat
  BY DEF Words
<1>2. Front \in Seq(Words) /\ Len(Front) = 17
  BY FrontFacts
<1> DEFINE t == Front \o o
<1>3. /\ t \in Seq(Words) /\ Len(t) = Len(Front) + Len(o)
      /\ \A i \in 1 .. Len(Front) + Len(o) :
           t[i] = IF i <= Len(Front) THEN Front[i] ELSE o[i - Len(Front)]
  BY <1>1, <1>2, ConcatProperties
<1> HIDE DEF t
<1>4. ASSUME NEW i \in 1 .. 17 PROVE t[i] = Front[i]
  <2>1. i \in 1 .. Len(Front) + Len(o) /\ i <= Len(Front)
    BY <1>1, <1>2
  <2> QED BY <1>3, <2>1
<1>5. ASSUME NEW i \in 1 .. Len(o) PROVE t[17 + i] = o[i]
  <2>1. 17 + i \in 1 .. Len(Front) + Len(o) /\ ~(17 + i <= Len(Front)) /\ (17 + i) - Len(Front) = i
    BY <1>1, <1>2
  <2> QED BY <1>3, <2>1
<1> QED BY <1>1, <1>2, <1>3, <1>4, <1>5 DEF t

LEMMA WrapperNextKeeps == WrapperInv /\ XwaylandNext => WrapperInv'
<1> SUFFICES ASSUME WrapperInv, XwaylandNext PROVE WrapperInv'
  OBVIOUS
<1>1. Len(<<>>) = 0 /\ 0 <= 0
  OBVIOUS
<1>2. CASE Missing
  BY <1>2 DEF Missing, WrapperInv, Started, Built
<1>3. CASE Build
  <2> DEFINE o == Tail(argv)
             line == Front \o o
  <2>1. /\ xpc = "main" /\ xpc' = "built" /\ room' = (16 + Len(argv)) + 1
        /\ \A v \in DOMAIN env : env[v] # "unset"
        /\ args' = line \o <<NULL>> /\ env' = env /\ argv' = argv
    BY <1>3 DEF Build, nargs, Front
  <2>2. /\ env \in Environments /\ argv # <<>> /\ argv \in Seq(Options \cup {"Xwayland"})
        /\ o \in Seq(Options)
    BY <2>1 DEF WrapperInv, Started
  <2>3. Len(o) = Len(argv) - 1 /\ Len(argv) \in Nat
    BY <2>2
  <2> HIDE DEF o
  <2>4. line \in Seq(Words) /\ Len(line) = 17 + Len(o)
    BY <2>2, LineFacts
  <2>5. Len(args') = Len(line) + 1
    <3> DEFINE last == <<NULL>>
               W == Words \cup {NULL}
    <3>1. line \in Seq(W) /\ last \in Seq(W) /\ Len(last) = 1
      BY <2>4
    <3> HIDE DEF last, W, line
    <3>2. Len(line \o last) = Len(line) + Len(last)
      BY <3>1, ConcatProperties
    <3> QED BY <2>1, <3>1, <3>2 DEF last
  <2>6. Len(args') <= room'
    BY <2>1, <2>3, <2>4, <2>5
  <2>7. Front' = Front
    BY <2>1 DEF Front, bind_cache, bind_xdg
  <2>8. args' = (Front' \o Tail(argv')) \o <<NULL>>
    BY <2>1, <2>7 DEF o
  <2> QED BY <2>1, <2>2, <2>6, <2>8 DEF WrapperInv, Started, Built, o
<1>4. CASE Execute
  <2>1. /\ xpc = "built" /\ xpc' \in {"running", "failed"}
        /\ UNCHANGED <<env, argv, room, args>> /\ Front' = Front
    BY <1>4 DEF Execute, Front, bind_cache, bind_xdg
  <2> QED BY <2>1 DEF WrapperInv, Started, Built
<1>5. CASE Launch
  <2>1. /\ xpc = "none" /\ xpc' = "main" /\ env' \in Environments
        /\ UNCHANGED <<room, args>>
    BY <1>5 DEF Launch
  <2>2. PICK o \in OptionLists : argv' = <<"Xwayland">> \o o
    BY <1>5 DEF Launch
  <2>3. o \in Seq(Options)
    BY DEF OptionLists
  <2> DEFINE S == Options \cup {"Xwayland"}
             first == <<"Xwayland">>
  <2>4. first \in Seq(S) /\ o \in Seq(S) /\ Len(first) = 1 /\ Len(o) \in Nat /\ argv' = first \o o
    BY <2>2, <2>3
  <2> HIDE DEF S, first
  <2>5. /\ argv' \in Seq(S) /\ Len(argv') = 1 + Len(o)
        /\ \A i \in 1 .. 1 + Len(o) : argv'[i] = IF i <= 1 THEN first[i] ELSE o[i - 1]
    <3>1. /\ first \o o \in Seq(S) /\ Len(first \o o) = Len(first) + Len(o)
          /\ \A i \in 1 .. Len(first) + Len(o) :
               (first \o o)[i] = IF i <= Len(first) THEN first[i] ELSE o[i - Len(first)]
      BY <2>4, ConcatProperties
    <3> QED BY <2>4, <3>1
  <2>6. argv' # <<>>
    BY <1>1, <2>4, <2>5
  <2>7. Tail(argv') = o
    <3> DEFINE t == Tail(argv')
    <3>1. /\ t \in Seq(S) /\ Len(t) = Len(argv') - 1
          /\ \A i \in 1 .. Len(argv') - 1 : t[i] = argv'[i + 1]
      BY <2>5, <2>6
    <3>2. Len(t) = Len(o)
      BY <2>4, <2>5, <3>1
    <3>3. ASSUME NEW i \in 1 .. Len(t) PROVE t[i] = o[i]
      <4>1. i \in 1 .. Len(argv') - 1 /\ i + 1 \in 1 .. 1 + Len(o) /\ ~(i + 1 <= 1) /\ (i + 1) - 1 = i
        BY <2>4, <2>5, <3>2
      <4> QED BY <2>5, <3>1, <4>1
    <3> HIDE DEF t
    <3> QED BY <2>4, <3>1, <3>2, <3>3, SeqEqual DEF t
  <2> QED BY <2>1, <2>3, <2>5, <2>6, <2>7 DEF WrapperInv, Started, Built, S
<1>6. CASE Ends
  BY <1>1, <1>6 DEF Ends, WrapperInv, Started, Built
<1> QED BY <1>2, <1>3, <1>4, <1>5, <1>6 DEF XwaylandNext, Main

LEMMA RunningIsRight == WrapperInv => RunsXwayland
<1> SUFFICES ASSUME WrapperInv PROVE RunsXwayland
  OBVIOUS
<1> SUFFICES ASSUME xpc = "running" PROVE RunsXwayland
  BY DEF WrapperInv, RunsXwayland
<1> DEFINE o == Tail(argv)
           line == Front \o o
<1>1. /\ \A v \in DOMAIN env : env[v] # "unset"
      /\ env \in Environments /\ o \in Seq(Options)
      /\ args = line \o <<NULL>> /\ Len(args) <= room
  BY DEF WrapperInv, Started, Built
<1> HIDE DEF o
<1>2. /\ line \in Seq(Words) /\ Len(line) = 17 + Len(o) /\ Len(o) \in Nat /\ o \in Seq(Words)
      /\ \A i \in 1 .. 17 : line[i] = Front[i]
      /\ \A i \in 1 .. Len(o) : line[17 + i] = o[i]
  BY <1>1, LineFacts
<1> HIDE DEF line
<1>3. CommandLine = line
  BY <1>1, <1>2, CommandLineIs
<1>4. /\ line[1] = "PROOT_BIN" /\ line[2] = "-0" /\ line[3] = "--link2symlink"
      /\ line[4] = "-r" /\ line[5] = "PROOT_ROOTFS"
      /\ line[6] = "-b" /\ line[7] = "/dev" /\ line[8] = "-b" /\ line[9] = "/proc"
      /\ line[10] = "-b" /\ line[11] = "/sys" /\ line[12] = "-b" /\ line[13] = bind_cache
      /\ line[14] = "-b" /\ line[15] = bind_xdg
      /\ line[16] = "/usr/bin/Xwayland" /\ line[17] = "-ac"
  BY <1>2, FrontFacts
<1> DEFINE binds == {"/dev", "/proc", "/sys", bind_cache, bind_xdg}
           command == SubSeq(line, 16, Len(line))
<1>5. Understood(CommandLine) = Reading("PROOT_ROOTFS", binds, command)
  <2>1. Len(line) \in Nat /\ Len(line) >= 17
    BY <1>2
  <2>2. Understood(line) =
           Reading(line[5], {line[7], line[9], line[11], line[13], line[15]},
                   SubSeq(line, 16, Len(line)))
    BY <1>4, <2>1, ProotReads
  <2> QED BY <1>3, <1>4, <2>2
<1>6. /\ Understood(CommandLine).rootfs = "PROOT_ROOTFS"
      /\ Understood(CommandLine).binds = binds
      /\ Understood(CommandLine).command = command
  <2> HIDE DEF binds, command
  <2> QED BY <1>5 DEF Reading
<1>7. command = <<"/usr/bin/Xwayland", "-ac">> \o o
  <2> DEFINE head == <<"/usr/bin/Xwayland", "-ac">>
             t == head \o o
  <2>1. head \in Seq(Words) /\ Len(head) = 2 /\ head[1] = line[16] /\ head[2] = line[17]
    BY <1>4 DEF Words
  <2> HIDE DEF head
  <2>2. /\ t \in Seq(Words) /\ Len(t) = Len(head) + Len(o)
        /\ \A i \in 1 .. Len(head) + Len(o) :
             t[i] = IF i <= Len(head) THEN head[i] ELSE o[i - Len(head)]
    BY <1>2, <2>1, ConcatProperties
  <2>3. /\ command \in Seq(Words)
        /\ Len(command) = IF 16 <= Len(line) THEN Len(line) - 16 + 1 ELSE 0
        /\ \A i \in 1 .. Len(line) - 16 + 1 : command[i] = line[16 + i - 1]
    <3>1. 16 \in Int /\ Len(line) \in Int /\ \A i \in 16 .. Len(line) : line[i] \in Words
      BY <1>2
    <3> QED BY <3>1, SubSeqProperties
  <2> HIDE DEF command, t
  <2>4. Len(command) = Len(t)
    BY <1>2, <2>1, <2>2, <2>3
  <2>5. ASSUME NEW i \in 1 .. Len(command) PROVE command[i] = t[i]
    <3>1. i \in 1 .. Len(line) - 16 + 1 /\ i \in 1 .. Len(head) + Len(o) /\ i \in Nat
      BY <1>2, <2>1, <2>2, <2>3, <2>4
    <3>2. command[i] = line[16 + i - 1]
      BY <2>3, <3>1
    <3>3. CASE i = 1 \/ i = 2
      <4>1. 16 + 1 - 1 = 16 /\ 16 + 2 - 1 = 17
        OBVIOUS
      <4> QED BY <2>1, <2>2, <3>1, <3>2, <3>3, <4>1
    <3>4. CASE i # 1 /\ i # 2
      <4>1. i - 2 \in 1 .. Len(o) /\ 17 + (i - 2) = 16 + i - 1 /\ ~(i <= Len(head))
            /\ i - Len(head) = i - 2
        <5>1. i \in Nat /\ 3 <= i /\ i <= 2 + Len(o) /\ Len(head) = 2
          BY <1>2, <2>1, <3>1, <3>4
        <5> QED BY <1>2, <5>1
      <4> QED BY <1>2, <2>2, <3>1, <3>2, <4>1
    <3> QED BY <3>3, <3>4
  <2> QED BY <2>2, <2>3, <2>4, <2>5, SeqEqual DEF t, head
<1>8. args[1] = "PROOT_BIN"
  <2>1. \A i \in 1 .. Len(line) : args[i] = line[i]
    <3> DEFINE last == <<NULL>>
               W == Words \cup {NULL}
    <3>1. line \in Seq(W) /\ last \in Seq(W) /\ Len(last) = 1 /\ Len(line) \in Nat
      BY <1>2
    <3> HIDE DEF last, W
    <3>2. \A i \in 1 .. Len(line) + Len(last) :
            (line \o last)[i] = IF i <= Len(line) THEN line[i] ELSE last[i - Len(line)]
      BY <3>1, ConcatProperties
    <3> QED BY <1>1, <3>1, <3>2 DEF last
  <2>2. 1 \in 1 .. Len(line)
    BY <1>2
  <2> QED BY <1>4, <2>1, <2>2
<1>9. /\ "CACHE_DIR:/tmp" \in binds <=> env["CACHE_DIR"] = "short"
      /\ "XDG_DIR:/tmp/xdg-runtime" \in binds <=> env["XDG_DIR"] = "short"
  <2>1. \A v \in Directories : env[v] \in {"short", "long"}
    BY <1>1 DEF Environments
  <2>2. env["CACHE_DIR"] \in {"short", "long"} /\ env["XDG_DIR"] \in {"short", "long"}
    BY <2>1 DEF Directories
  <2> QED BY <2>2 DEF bind_cache, bind_xdg
<1>10. {"/dev", "/proc", "/sys"} \subseteq binds
  OBVIOUS
<1> QED BY <1>1, <1>6, <1>7, <1>8, <1>9, <1>10 DEF RunsXwayland, o

(* The vector fits its memory, for any number of options; when PRoot runs, *)
(* it understands its line as meant: Xwayland with the options of wlroots  *)
(* in their order, whatever they are, in the root file system of the       *)
(* environment, each directory at its place if its name is short enough.   *)
THEOREM XwaylandRuns == Spec => []RunsXwayland
<1>1. Init => WrapperInv
  <2>1. Len(<<>>) = 0 /\ 0 <= 0
    OBVIOUS
  <2> QED BY <2>1 DEF Init, XwaylandInit, WrapperInv, Started, Built
<1>2. WrapperInv /\ [Next]_vars => WrapperInv'
  <2>1. WrapperInv /\ UNCHANGED xwaylandVars => WrapperInv'
    BY DEF WrapperInv, xwaylandVars, Started, Built, Front, bind_cache, bind_xdg
  <2> QED BY <2>1, WrapperNextKeeps DEF Next, vars
<1> QED BY <1>1, <1>2, RunningIsRight, PTL DEF Spec
=============================================================================
