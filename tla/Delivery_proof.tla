--------------------------- MODULE Delivery_proof ---------------------------
(***************************************************************************)
(* Delivery for any number of clients, any body and any sizes of chunks:   *)
(* the proxy broadcasts the download (module Broadcast), and no session    *)
(* sleeps on while the entry has something for it.                         *)
(*                                                                         *)
(* The bytes of the body are the positions 1, 2, ...; a chunk holds those  *)
(* that follow the ones before it (Layout), a client has received those up *)
(* to its cursor (Received), and so whatever cache_get_chunk finds at the  *)
(* cursor is what comes next.  Finding it goes through FlattenSeq and      *)
(* a smallest index: the first section proves what is needed about them    *)
(* by induction over natural numbers, in the form of sets.                 *)
(***************************************************************************)
EXTENDS Delivery, SequenceTheorems, WellFoundedInduction, TLAPS

-----------------------------------------------------------------------------
(* Induction over natural numbers, from the library's well-founded order *)

(* A set of natural numbers with 0 and every successor has them all. *)
LEMMA Induction ==
  ASSUME NEW S, 0 \in S, \A n \in Nat : n \in S => n + 1 \in S
  PROVE  Nat \subseteq S
<1> DEFINE R == OpToRel(<, Nat)
<1>1. IsWellFoundedOn(R, Nat)
  BY NatLessThanWellFounded
<1>2. \A m, n \in Nat : m < n => <<m, n>> \in R
  BY DEF OpToRel
<1> HIDE DEF R
<1> SUFFICES ASSUME Nat \ S # {} PROVE FALSE
  OBVIOUS
<1>3. PICK n \in Nat \ S : \A m \in Nat \ S : ~ (<<m, n>> \in R)
  BY <1>1, WFMin
<1>4. n - 1 \in Nat /\ n - 1 < n
  BY <1>3
<1>5. n - 1 \in S
  BY <1>2, <1>3, <1>4
<1>. QED BY <1>3, <1>4, <1>5

(* A set of natural numbers has a least one. *)
LEMMA Least ==
  ASSUME NEW S \in SUBSET Nat, S # {}
  PROVE  \E n \in S : \A m \in S : n <= m
<1> DEFINE R == OpToRel(<, Nat)
<1>1. IsWellFoundedOn(R, Nat)
  BY NatLessThanWellFounded
<1>2. \A m, n \in Nat : m < n => <<m, n>> \in R
  BY DEF OpToRel
<1> HIDE DEF R
<1>3. PICK n \in S : \A m \in S : ~ (<<m, n>> \in R)
  BY <1>1, WFMin
<1>4. \A m \in S : n <= m
  <2> SUFFICES ASSUME NEW m \in S, ~ (n <= m) PROVE FALSE
    OBVIOUS
  <2>1. m < n /\ m \in Nat /\ n \in Nat
    OBVIOUS
  <2>. QED BY <2>1, <1>2, <1>3
<1>. QED BY <1>4

-----------------------------------------------------------------------------
(* The sequence that FlattenSeq makes *)

(* FlattenSeq, as SequencesExt defines it, by recursion over the prefixes *)
Flattening(s, f) == [i \in 1 .. Len(s) |-> IF i = 1 THEN s[i] ELSE f[i - 1] \o s[i]]

(* The recursion has a solution, of sequences, ... *)
LEMMA FlatteningExists ==
  ASSUME NEW T, NEW s \in Seq(Seq(T))
  PROVE  \E f \in [1 .. Len(s) -> Seq(T)] : f = Flattening(s, f)
<1> DEFINE Good(k, f) == \A i \in 1 .. k : f[i] = IF i = 1 THEN s[i] ELSE f[i - 1] \o s[i]
           Reach == {k \in Nat : k <= Len(s) => \E f \in [1 .. k -> Seq(T)] : Good(k, f)}
<1>1. Len(s) \in Nat /\ \A i \in 1 .. Len(s) : s[i] \in Seq(T)
  OBVIOUS
<1>2. 0 \in Reach
  <2>1. [i \in 1 .. 0 |-> <<>>] \in [1 .. 0 -> Seq(T)] /\ Good(0, [i \in 1 .. 0 |-> <<>>])
    OBVIOUS
  <2>. QED BY <2>1
<1>3. ASSUME NEW k \in Nat, k \in Reach, k + 1 <= Len(s)
      PROVE  \E f \in [1 .. k + 1 -> Seq(T)] : Good(k + 1, f)
  <2>1. PICK f \in [1 .. k -> Seq(T)] : Good(k, f)
    <3>1. k <= Len(s)
      BY <1>1, <1>3
    <3> HIDE DEF Good
    <3>. QED BY <1>3, <3>1
  <2> DEFINE last == IF k = 0 THEN s[k + 1] ELSE f[k] \o s[k + 1]
             g == [i \in 1 .. k + 1 |-> IF i = k + 1 THEN last ELSE f[i]]
  <2>2. last \in Seq(T)
    <3>1. s[k + 1] \in Seq(T)
      BY <1>1, <1>3
    <3>2. CASE k = 0
      BY <3>1, <3>2
    <3>3. CASE k # 0
      <4>1. f[k] \in Seq(T)
        BY <3>3
      <4>. QED BY <3>1, <3>3, <4>1, ConcatProperties
    <3>. QED BY <3>2, <3>3
  <2> HIDE DEF last
  <2>3. g \in [1 .. k + 1 -> Seq(T)]
    <3> SUFFICES ASSUME NEW i \in 1 .. k + 1 PROVE (IF i = k + 1 THEN last ELSE f[i]) \in Seq(T)
      OBVIOUS
    <3>1. i # k + 1 => i \in 1 .. k
      OBVIOUS
    <3>. QED BY <2>2, <3>1
  <2>4. Good(k + 1, g)
    <3> SUFFICES ASSUME NEW i \in 1 .. k + 1
                 PROVE  g[i] = IF i = 1 THEN s[i] ELSE g[i - 1] \o s[i]
      OBVIOUS
    <3>1. CASE i = k + 1
      <4>1. g[i] = last
        BY <3>1
      <4>2. i = 1 => last = s[i]
        BY <3>1 DEF last
      <4>3. i # 1 => last = f[i - 1] \o s[i] /\ g[i - 1] = f[i - 1]
        <5>1. i - 1 = k /\ (i # 1 => k # 0 /\ k \in 1 .. k + 1 /\ k # k + 1)
          BY <3>1
        <5>2. i # 1 => g[k] = f[k]
          BY <5>1
        <5>. QED BY <3>1, <5>1, <5>2 DEF last
      <4>. QED BY <4>1, <4>2, <4>3
    <3>2. CASE i # k + 1
      <4>1. i \in 1 .. k /\ g[i] = f[i] /\ (i # 1 => g[i - 1] = f[i - 1])
        BY <3>2
      <4>. QED BY <4>1, <2>1
    <3>. QED BY <3>1, <3>2
  <2> HIDE DEF Good, g
  <2>. QED BY <2>3, <2>4
<1>4. \A k \in Nat : k \in Reach => k + 1 \in Reach
  <2> SUFFICES ASSUME NEW k \in Nat, k \in Reach PROVE k + 1 \in Reach
    OBVIOUS
  <2> HIDE DEF Good
  <2>. QED BY <1>3
<1> HIDE DEF Reach
<1>5. Len(s) \in Reach
  BY <1>1, <1>2, <1>4, Induction
<1>6. PICK f \in [1 .. Len(s) -> Seq(T)] : Good(Len(s), f)
  BY <1>1, <1>5 DEF Reach
<1>7. f = Flattening(s, f)
  <2>1. \A i \in 1 .. Len(s) : f[i] = Flattening(s, f)[i]
    BY <1>6 DEF Flattening
  <2>2. DOMAIN Flattening(s, f) = 1 .. Len(s) /\ Flattening(s, f) = [i \in 1 .. Len(s) |-> Flattening(s, f)[i]]
    BY DEF Flattening
  <2>3. f = [i \in 1 .. Len(s) |-> f[i]]
    OBVIOUS
  <2>. QED BY <2>1, <2>2, <2>3
<1>. QED BY <1>7

(* ... and only one, ... *)
LEMMA FlatteningUnique ==
  ASSUME NEW T, NEW s \in Seq(Seq(T)), NEW f, NEW g, f = Flattening(s, f), g = Flattening(s, g)
  PROVE  f = g
<1> DEFINE Same == {k \in Nat : \A i \in 1 .. Len(s) : i <= k => f[i] = g[i]}
<1>1. Len(s) \in Nat
  OBVIOUS
<1>2. \A i \in 1 .. Len(s) : /\ f[i] = IF i = 1 THEN s[i] ELSE f[i - 1] \o s[i]
                             /\ g[i] = IF i = 1 THEN s[i] ELSE g[i - 1] \o s[i]
  BY Zenon DEF Flattening
<1>3. 0 \in Same
  OBVIOUS
<1>4. ASSUME NEW k \in Nat, k \in Same, NEW i \in 1 .. Len(s), i <= k + 1
      PROVE  f[i] = g[i]
  <2>1. CASE i = 1
    BY <1>2, <2>1
  <2>2. CASE i # 1
    <3>1. i - 1 \in 1 .. Len(s) /\ i - 1 <= k
      BY <1>1, <1>4, <2>2
    <3>2. f[i - 1] = g[i - 1]
      BY <3>1, <1>4
    <3>. QED BY <3>2, <2>2, <1>2
  <2>. QED BY <2>1, <2>2
<1>5. ASSUME NEW k \in Nat, k \in Same PROVE k + 1 \in Same
  <2>1. \A i \in 1 .. Len(s) : i <= k + 1 => f[i] = g[i]
    BY <1>4, <1>5
  <2>. QED BY <2>1
<1> HIDE DEF Same
<1>6. Len(s) \in Same
  BY <1>1, <1>3, <1>5, Induction
<1>7. \A i \in 1 .. Len(s) : f[i] = g[i]
  BY <1>1, <1>6 DEF Same
<1>8. f = [i \in 1 .. Len(s) |-> f[i]] /\ g = [i \in 1 .. Len(s) |-> g[i]]
  BY Zenon DEF Flattening
<1>. QED BY <1>7, <1>8

(* ... whose last value FlattenSeq is. *)
LEMMA FlattenIs ==
  ASSUME NEW T, NEW s \in Seq(Seq(T)), s # <<>>, NEW f, f = Flattening(s, f)
  PROVE  FlattenSeq(s) = f[Len(s)]
<1> DEFINE g == CHOOSE h : h = Flattening(s, h)
<1>1. Len(s) \in Nat \ {0} /\ FlattenSeq(s) = g[Len(s)]
  BY EmptySeq DEF FlattenSeq, Flattening
<1>2. g = Flattening(s, g)
  OBVIOUS
<1> HIDE DEF g
<1>3. f = g
  BY <1>2, FlatteningUnique
<1>. QED BY <1>1, <1>3

(* Flattening gives a sequence, and one sequence more adds its elements. *)
LEMMA FlattenType ==
  ASSUME NEW T, NEW s \in Seq(Seq(T))
  PROVE  FlattenSeq(s) \in Seq(T)
<1>1. CASE s = <<>>
  BY <1>1, EmptySeq DEF FlattenSeq
<1>2. CASE s # <<>>
  <2>1. Len(s) \in Nat \ {0}
    BY <1>2, EmptySeq
  <2>2. PICK f \in [1 .. Len(s) -> Seq(T)] : f = Flattening(s, f)
    BY FlatteningExists
  <2>3. FlattenSeq(s) = f[Len(s)]
    BY <1>2, <2>2, FlattenIs
  <2>. QED BY <2>1, <2>2, <2>3
<1>. QED BY <1>1, <1>2

LEMMA FlattenAppend ==
  ASSUME NEW T, NEW s \in Seq(Seq(T)), NEW x \in Seq(T)
  PROVE  FlattenSeq(Append(s, x)) = FlattenSeq(s) \o x
<1> DEFINE t == Append(s, x)
           n == Len(s)
<1>1. /\ t \in Seq(Seq(T)) /\ Len(t) = n + 1 /\ n \in Nat /\ t[n + 1] = x /\ t # <<>>
      /\ \A i \in 1 .. n : t[i] = s[i]
  BY AppendProperties, EmptySeq
<1> HIDE DEF t
<1>2. PICK f \in [1 .. Len(t) -> Seq(T)] : f = Flattening(t, f)
  BY <1>1, FlatteningExists
<1>3. FlattenSeq(t) = f[n + 1]
  BY <1>1, <1>2, FlattenIs
<1>4. \A i \in 1 .. n + 1 : f[i] = IF i = 1 THEN t[i] ELSE f[i - 1] \o t[i]
  BY <1>1, <1>2 DEF Flattening
<1>5. CASE s = <<>>
  <2>1. n = 0 /\ FlattenSeq(s) = s
    BY <1>5 DEF FlattenSeq
  <2>2. FlattenSeq(t) = x
    BY <1>1, <1>3, <1>4, <2>1
  <2>. QED BY <2>1, <2>2, <1>5, ConcatEmptySeq DEF t
<1>6. CASE s # <<>>
  <2>1. n \in Nat \ {0}
    BY <1>6, EmptySeq
  <2> DEFINE g == [i \in 1 .. n |-> f[i]]
  <2>2. g = Flattening(s, g)
    <3>1. \A i \in 1 .. n : f[i] = IF i = 1 THEN s[i] ELSE g[i - 1] \o s[i]
      <4> SUFFICES ASSUME NEW i \in 1 .. n PROVE f[i] = IF i = 1 THEN s[i] ELSE g[i - 1] \o s[i]
        OBVIOUS
      <4>1. i \in 1 .. n + 1 /\ (i # 1 => i - 1 \in 1 .. n) /\ t[i] = s[i]
        BY <1>1
      <4>2. i # 1 => g[i - 1] = f[i - 1]
        BY <4>1
      <4>. QED BY <4>1, <4>2, <1>4
    <3>. QED BY <3>1 DEF Flattening
  <2>3. FlattenSeq(s) = g[n]
    <3> HIDE DEF g
    <3>. QED BY <2>2, <1>6, FlattenIs
  <2>4. f[n + 1] = f[n] \o x
    <3>1. n + 1 \in 1 .. n + 1 /\ n + 1 # 1 /\ (n + 1) - 1 = n
      BY <2>1
    <3>. QED BY <1>1, <1>4, <3>1
  <2>5. g[n] = f[n]
    BY <2>1
  <2> HIDE DEF g
  <2>. QED BY <1>3, <2>3, <2>4, <2>5 DEF t
<1>. QED BY <1>5, <1>6

-----------------------------------------------------------------------------
(* The inductive invariant *)

Prefix(n) == [i \in 1 .. n |-> i]

(* A chunk is not empty and holds the bytes after those of the chunks before. *)
Layout ==
  /\ produced <= MaxBytes
  /\ \A i \in DOMAIN chunks : /\ Len(chunks[i]) > 0
                              /\ Start(i) + Len(chunks[i]) <= produced
                              /\ \A j \in DOMAIN chunks[i] : chunks[i][j] = Start(i) + j

(* A client has the bytes up to its cursor, and the next ones are at hand. *)
Received ==
  /\ \A c \in Clients : sess[c].cursor <= produced /\ got[c] = Prefix(sess[c].cursor)
  /\ loop.at = "body" => /\ sess[loop.c].cursor + Len(loop.data) <= produced
                         /\ \A j \in DOMAIN loop.data : loop.data[j] = sess[loop.c].cursor + j

(* How far the downloader thread is, and what the entry says of it *)
Progress ==
  /\ completed <=> worker \in {"stop", "done"}
  /\ ready <=> worker # "connect"
  /\ worker = "connect" => header = "none" /\ chunks = <<>>

(* Where the loop is, and what it knows of the session it works for *)
InCallback == loop.at \in {"header", "copy", "send", "chunk", "body", "miss", "after"}

Places ==
  /\ loop.at = "wake" \/ InCallback => loop.c \in Clients /\ Subscribed(loop.c)
  /\ loop.at \in {"chunk", "body", "miss", "after"} => sess[loop.c].headerSent = HeaderSize
  /\ todo # {} => loop.at \in {"look", "wake"}
  /\ \A c \in todo : Subscribed(c)
  /\ loop.at = "wake" => loop.c \in todo
  /\ loop.all => loop.at = "after" /\ completed /\ sess[loop.c].cursor = produced

(* The loop will be told of the last change, or that news was lost.  What *)
(* a look at the entry missed is announced.                               *)
Announced == \/ queued /\ signalled
             \/ worker \in {"append", "mark", "stop"}
             \/ worker = "recv" /\ header = "none" /\ chunks = <<>>
             \/ missed

StaleLook == loop.at = "wake" /\ ((ready /\ ~loop.ready) \/ (completed /\ ~loop.completed)) => Announced

Inv == TypeOK /\ Layout /\ Received /\ Progress /\ Places /\ StaleLook /\ NoLostWakeup

-----------------------------------------------------------------------------
(* Positions of the chunks *)
Chunks == chunks \in Seq(Seq(1 .. MaxBytes))

(* The chunks are laid end to end. *)
LEMMA Starts ==
  ASSUME Chunks
  PROVE  /\ produced \in Nat /\ Len(chunks) \in Nat
         /\ Start(1) = 0 /\ Start(Len(chunks) + 1) = produced
         /\ \A i \in 1 .. Len(chunks) : /\ Start(i) \in Nat /\ Len(chunks[i]) \in Nat
                                        /\ Start(i + 1) = Start(i) + Len(chunks[i])
<1> DEFINE T == 1 .. MaxBytes
<1>1. Len(chunks) \in Nat /\ \A i \in 1 .. Len(chunks) : chunks[i] \in Seq(T)
  BY DEF Chunks
<1>2. \A i \in 0 .. Len(chunks) : SubSeq(chunks, 1, i) \in Seq(Seq(T)) /\ Len(SubSeq(chunks, 1, i)) = i
  BY DEF Chunks
<1>3. \A i \in 1 .. Len(chunks) + 1 : Start(i) \in Nat
  <2> SUFFICES ASSUME NEW i \in 1 .. Len(chunks) + 1 PROVE Start(i) \in Nat
    OBVIOUS
  <2>1. i - 1 \in 0 .. Len(chunks)
    BY <1>1
  <2> HIDE DEF T
  <2>2. FlattenSeq(SubSeq(chunks, 1, i - 1)) \in Seq(T)
    BY <2>1, <1>2, FlattenType
  <2>. QED BY <2>2, LenProperties DEF Start
<1>4. Start(1) = 0
  <2>1. SubSeq(chunks, 1, 1 - 1) = <<>>
    BY SubSeqEmpty
  <2>2. FlattenSeq(<<>>) = <<>>
    BY DEF FlattenSeq
  <2>3. Len(<<>>) = 0
    OBVIOUS
  <2>. QED BY <2>1, <2>2, <2>3, Zenon DEF Start
<1>5. SubSeq(chunks, 1, (Len(chunks) + 1) - 1) = chunks
  BY <1>1 DEF Chunks
<1>6. Start(Len(chunks) + 1) = produced
  BY <1>5 DEF Start, produced
<1>7. ASSUME NEW i \in 1 .. Len(chunks)
      PROVE  Start(i + 1) = Start(i) + Len(chunks[i])
  <2> DEFINE p == SubSeq(chunks, 1, i - 1)
  <2>1. p \in Seq(Seq(T)) /\ chunks[i] \in Seq(T)
    BY <1>1, <1>2
  <2>2. SubSeq(chunks, 1, i) = Append(p, chunks[i])
    <3>1. SubSeq(chunks, 1, i) = SubSeq(chunks, 1, i - 1) \o <<chunks[i]>>
      BY <1>1, SubSeqRecursiveSecond DEF Chunks
    <3> HIDE DEF T
    <3>. QED BY <3>1, <2>1, AppendIsConcat
  <2>3. (i + 1) - 1 = i
    BY <1>1
  <2> HIDE DEF p, T
  <2>4. FlattenSeq(SubSeq(chunks, 1, i)) = FlattenSeq(p) \o chunks[i]
    BY <2>1, <2>2, FlattenAppend
  <2>5. FlattenSeq(p) \in Seq(T)
    BY <2>1, FlattenType
  <2>6. Len(FlattenSeq(SubSeq(chunks, 1, i))) = Len(FlattenSeq(p)) + Len(chunks[i])
    BY <2>1, <2>4, <2>5, ConcatProperties
  <2>. QED BY <2>3, <2>6 DEF Start, p
<1>8. \A i \in 1 .. Len(chunks) : Len(chunks[i]) \in Nat
  BY <1>1
<1>9. produced \in Nat
  BY <1>1, <1>3, <1>6
<1>. QED BY <1>1, <1>3, <1>4, <1>6, <1>7, <1>8, <1>9

(* cache_get_chunk gives bytes from the offset on *)
LEMMA ChunkFromBytes ==
  ASSUME Chunks, Layout, NEW offset \in 0 .. produced
  PROVE  /\ ChunkFrom(offset) \in Seq(1 .. MaxBytes)
         /\ offset + Len(ChunkFrom(offset)) <= produced
         /\ \A j \in DOMAIN ChunkFrom(offset) : ChunkFrom(offset)[j] = offset + j
<1> DEFINE holding == {i \in DOMAIN chunks : Start(i) + Len(chunks[i]) > offset}
           i == CHOOSE k \in holding : \A j \in holding : k <= j
<1>1. produced \in Nat /\ Len(chunks) \in Nat /\ DOMAIN chunks = 1 .. Len(chunks)
  BY Starts DEF Chunks
<1>2. ChunkFrom(offset) = IF holding = {} THEN <<>> ELSE SubSeq(chunks[i], offset - Start(i) + 1, Len(chunks[i]))
  BY DEF ChunkFrom
<1>3. CASE holding = {}
  <2>1. ChunkFrom(offset) = <<>>
    <3> HIDE DEF holding, i
    <3>. QED BY <1>2, <1>3
  <2>. QED BY <2>1, <1>1
<1>4. CASE holding # {}
  <2>1. i \in holding /\ \A j \in holding : i <= j
    <3>1. holding \in SUBSET Nat
      BY <1>1
    <3> HIDE DEF holding
    <3>2. \E k \in holding : \A j \in holding : k <= j
      BY <3>1, <1>4, Least
    <3>. QED BY <3>2
  <2> HIDE DEF i
  <2>2. /\ i \in 1 .. Len(chunks) /\ Start(i) \in Nat /\ Start(i) + Len(chunks[i]) > offset
        /\ Start(i) + Len(chunks[i]) <= produced /\ Len(chunks[i]) \in Nat
        /\ chunks[i] \in Seq(1 .. MaxBytes)
        /\ \A j \in 1 .. Len(chunks[i]) : chunks[i][j] = Start(i) + j
    BY <1>1, <2>1, Starts DEF Layout, Chunks
  <2>3. Start(i) <= offset
    <3>1. CASE i = 1
      BY <3>1, <1>1, Starts
    <3>2. CASE i # 1
      <4>1. i - 1 \in 1 .. Len(chunks) /\ ~ (i <= i - 1)
        BY <2>2, <3>2
      <4>2. i - 1 \notin holding
        BY <4>1, <2>1
      <4>3. Start((i - 1) + 1) = Start(i - 1) + Len(chunks[i - 1]) /\ Start(i - 1) \in Nat /\ Len(chunks[i - 1]) \in Nat
        BY <4>1, Starts
      <4>4. ~ (Start(i - 1) + Len(chunks[i - 1]) > offset)
        BY <4>1, <4>2, <1>1
      <4>5. (i - 1) + 1 = i
        BY <2>2
      <4>. QED BY <4>3, <4>4, <4>5, <1>1
    <3>. QED BY <3>1, <3>2
  <2> DEFINE m == offset - Start(i) + 1
             n == Len(chunks[i])
             d == SubSeq(chunks[i], m, n)
  <2>4. m \in 1 .. n /\ n \in Nat
    BY <1>1, <2>2, <2>3
  <2>5. \A j \in m .. n : chunks[i][j] \in 1 .. MaxBytes
    <3>1. \A j \in m .. n : j \in 1 .. n
      BY <2>4
    <3>. QED BY <2>2, <3>1, ElementOfSeq
  <2>6. d \in Seq(1 .. MaxBytes) /\ Len(d) = n - m + 1 /\ \A j \in 1 .. n - m + 1 : d[j] = chunks[i][m + j - 1]
    <3> HIDE DEF m, n
    <3>. QED BY <2>4, <2>5, SubSeqProperties
  <2>7. offset + (n - m + 1) <= produced
    BY <1>1, <2>2, <2>3
  <2>8. ASSUME NEW j \in 1 .. n - m + 1 PROVE d[j] = offset + j
    <3>1. m + j - 1 \in 1 .. n /\ Start(i) + (m + j - 1) = offset + j
      BY <1>1, <2>2, <2>3
    <3>2. d[j] = chunks[i][m + j - 1]
      BY <2>6
    <3>. QED BY <3>1, <3>2, <2>2
  <2>9. ChunkFrom(offset) = d
    BY <1>2, <1>4
  <2> HIDE DEF d, m, n
  <2>10. DOMAIN d = 1 .. n - m + 1
    BY <2>6
  <2>. QED BY <2>6, <2>7, <2>8, <2>9, <2>10
<1>. QED BY <1>3, <1>4

(* A chunk more *)
LEMMA Appended ==
  ASSUME Chunks, Layout, NEW size \in Nat \ {0}, produced + size <= MaxBytes,
         chunks' = Append(chunks, [i \in 1 .. size |-> produced + i])
  PROVE  Chunks' /\ Layout' /\ produced' = produced + size
<1> DEFINE b == [i \in 1 .. size |-> produced + i]
           n == Len(chunks)
<1>1. produced \in Nat /\ n \in Nat /\ DOMAIN chunks = 1 .. n
  BY Starts DEF Chunks
<1>2. b \in Seq(1 .. MaxBytes) /\ Len(b) = size /\ DOMAIN b = 1 .. size
  <2>1. MaxBytes \in Nat
    BY BytesAssumption
  <2>2. \A i \in 1 .. size : produced + i \in 1 .. MaxBytes
    BY <1>1, <2>1
  <2>. QED BY <2>2
<1>3. \A i \in 1 .. size : b[i] = produced + i
  OBVIOUS
<1>4. chunks' = Append(chunks, b)
  OBVIOUS
<1> HIDE DEF b
<1>5. /\ chunks' \in Seq(Seq(1 .. MaxBytes)) /\ Len(chunks') = n + 1 /\ DOMAIN chunks' = 1 .. n + 1
      /\ chunks'[n + 1] = b /\ \A i \in 1 .. n : chunks'[i] = chunks[i]
  <2>1. chunks \in Seq(Seq(1 .. MaxBytes)) /\ b \in Seq(1 .. MaxBytes)
    BY <1>2 DEF Chunks
  <2> DEFINE T == Seq(1 .. MaxBytes)
  <2> HIDE DEF T
  <2>2. /\ chunks' \in Seq(T) /\ Len(chunks') = n + 1 /\ chunks'[n + 1] = b
        /\ \A i \in 1 .. n : chunks'[i] = chunks[i]
    <3>1. chunks \in Seq(T) /\ b \in T
      BY <2>1 DEF T
    <3>. QED BY <1>4, <3>1, AppendProperties
  <2>5. DOMAIN chunks' = 1 .. n + 1
    BY <2>2, LenProperties
  <2>. QED BY <2>2, <2>5 DEF T
<1>6. Chunks'
  BY <1>5 DEF Chunks
<1>7. produced' = produced + size
  <2>1. FlattenSeq(chunks') = FlattenSeq(chunks) \o b
    BY <1>2, <1>4, FlattenAppend DEF Chunks
  <2>2. FlattenSeq(chunks) \in Seq(1 .. MaxBytes)
    BY FlattenType DEF Chunks
  <2>. QED BY <1>2, <2>1, <2>2, ConcatProperties DEF produced
<1>8. \A i \in 1 .. n + 1 : Start(i)' = Start(i)
  <2> SUFFICES ASSUME NEW i \in 1 .. n + 1 PROVE Start(i)' = Start(i)
    OBVIOUS
  <2>1. SubSeq(chunks', 1, i - 1) = SubSeq(chunks, 1, i - 1)
    <3>1. i - 1 \in 0 .. n
      BY <1>1
    <3> DEFINE k == i - 1
    <3> HIDE DEF k
    <3>2. SubSeq(chunks', 1, k) = [j \in 1 .. k |-> chunks'[j]] /\ SubSeq(chunks, 1, k) = [j \in 1 .. k |-> chunks[j]]
      BY <3>1, <1>1, <1>5 DEF Chunks, k
    <3>3. \A j \in 1 .. k : chunks'[j] = chunks[j]
      BY <3>1, <1>1, <1>5 DEF k
    <3>. QED BY <3>2, <3>3 DEF k
  <2>. QED BY <2>1 DEF Start
<1>9. Start(n + 1) = produced /\ (\A i \in 1 .. n : Start(i) \in Nat /\ Len(chunks[i]) \in Nat)
  BY Starts
<1>10. Layout'
  <2>1. produced' <= MaxBytes
    BY <1>7
  <2>2. ASSUME NEW i \in 1 .. n + 1
        PROVE  /\ Len(chunks'[i]) > 0
               /\ Start(i)' + Len(chunks'[i]) <= produced'
               /\ \A j \in DOMAIN chunks'[i] : chunks'[i][j] = Start(i)' + j
    <3>1. CASE i = n + 1
      <4>1. chunks'[i] = b /\ Start(i)' = produced
        BY <3>1, <1>5, <1>8, <1>9, <1>1
      <4>. QED BY <4>1, <1>1, <1>2, <1>3, <1>7
    <3>2. CASE i # n + 1
      <4>1. i \in 1 .. n /\ chunks'[i] = chunks[i] /\ Start(i)' = Start(i)
        BY <3>2, <1>5, <1>8, <1>1
      <4>2. /\ Len(chunks[i]) > 0 /\ Start(i) + Len(chunks[i]) <= produced
            /\ \A j \in DOMAIN chunks[i] : chunks[i][j] = Start(i) + j
        BY <4>1, <1>1 DEF Layout
      <4>. QED BY <4>1, <4>2, <1>1, <1>7, <1>9
    <3>. QED BY <3>1, <3>2
  <2>. QED BY <1>5, <2>1, <2>2 DEF Layout
<1>. QED BY <1>6, <1>7, <1>10

-----------------------------------------------------------------------------
(* The initial states, and what every step may use *)

Session == [st : {"none", "stream", "done", "error"}, writing : BOOLEAN,
            headerSent : 0 .. HeaderSize, cursor : 0 .. MaxBytes,
            buf : {"none", "origin", "200", "502", "freed"}]
Place == [at : {"idle", "look", "wake", "header", "copy", "send", "chunk", "body", "miss", "after"},
          c : Clients \cup {NoClient}, ready : BOOLEAN, completed : BOOLEAN,
          header : {"none", "origin"}, data : Seq(1 .. MaxBytes), room : BOOLEAN, all : BOOLEAN]

(* The parts of the type invariant *)
LEMMA Types ==
  ASSUME TypeOK
  PROVE  /\ Chunks /\ sess \in [Clients -> Session] /\ loop \in Place
         /\ (Layout => produced \in 0 .. MaxBytes) /\ HeaderSize \in Nat /\ MaxBytes \in Nat
<1>1. Chunks
  BY DEF TypeOK, Chunks
<1>2. produced \in Nat
  BY <1>1, Starts
<1>. QED BY <1>1, <1>2, BytesAssumption DEF TypeOK, Session, Place, Layout

(* Where the loop rests *)
LEMMA IdlePlace ==
  /\ Idle \in Place /\ Idle.at = "idle" /\ ~Idle.all
  /\ [Idle EXCEPT !.at = "look"] \in Place
<1>1. <<>> \in Seq(1 .. MaxBytes)
  OBVIOUS
<1>. QED BY <1>1 DEF Idle, Place

(* The entry is left alone: so is everything said of it alone. *)
LEMMA SameChunks ==
  ASSUME UNCHANGED chunks
  PROVE  produced' = produced /\ (Layout => Layout')
  BY DEF produced, Layout, Start

(* Nothing has been asked for. *)
LEMMA InitInv == Init => Inv
<1> SUFFICES ASSUME Init PROVE Inv
  OBVIOUS
<1> USE BytesAssumption
<1>1. TypeOK
  <2>1. 0 \in 0 .. HeaderSize /\ 0 \in 0 .. MaxBytes
    OBVIOUS
  <2>2. <<>> \in Seq(1 .. MaxBytes) /\ <<>> \in Seq(Seq(1 .. MaxBytes))
    OBVIOUS
  <2>. QED BY <2>1, <2>2 DEF Init, TypeOK, Idle
<1>2. produced = 0
  <2>1. FlattenSeq(<<>>) = <<>>
    BY DEF FlattenSeq
  <2>. QED BY <2>1 DEF Init, produced
<1>3. Layout
  BY <1>2 DEF Init, Layout
<1>4. Received
  <2>1. \A c \in Clients : sess[c].cursor = 0 /\ got[c] = <<>>
    BY DEF Init
  <2>2. Prefix(0) = <<>>
    BY DEF Prefix
  <2>. QED BY <1>2, <2>1, <2>2 DEF Received, Init, Idle
<1>5. Progress /\ Places /\ StaleLook
  BY DEF Init, Progress, Places, StaleLook, Idle, InCallback
<1>6. NoLostWakeup
  BY DEF Init, NoLostWakeup, Subscribed
<1>. QED BY <1>1, <1>3, <1>4, <1>5, <1>6 DEF Inv

-----------------------------------------------------------------------------
(* A step of the downloader thread *)
LEMMA DownloadStep ==
  ASSUME Inv, Download
  PROVE  /\ UNCHANGED <<sess, got, loop, todo>>
         /\ TypeOK' /\ Layout' /\ Progress' /\ Announced'
         /\ \/ produced' = produced /\ (completed => completed')
            \/ produced' > produced /\ produced \in Nat /\ produced' \in Nat /\ ~completed /\ ~completed'
<1> USE DEF Inv
<1>0. produced \in 0 .. MaxBytes /\ Chunks /\ MaxBytes \in Nat
  BY Types
<1>1. CASE Fail
  <2> USE <1>1 DEF Fail, Worker
  <2>1. produced' = produced /\ Layout'
    BY SameChunks
  <2>2. TypeOK'
    BY DEF TypeOK
  <2>3. Progress' /\ Announced'
    BY DEF Progress, Announced
  <2>. QED BY <2>1, <2>2, <2>3
<1>2. CASE ParseHeader
  <2> USE <1>2 DEF ParseHeader, Worker
  <2>1. produced' = produced /\ Layout'
    BY SameChunks
  <2>2. TypeOK'
    BY DEF TypeOK
  <2>3. Progress' /\ Announced'
    BY DEF Progress, Announced
  <2>. QED BY <2>1, <2>2, <2>3
<1>3. CASE GiveUpHeader
  <2> USE <1>3 DEF GiveUpHeader, Worker
  <2>1. produced' = produced /\ Layout'
    BY SameChunks
  <2>2. TypeOK'
    BY DEF TypeOK
  <2>3. Progress' /\ Announced'
    BY DEF Progress, Announced
  <2>. QED BY <2>1, <2>2, <2>3
<1>4. CASE Receive
  <2> USE <1>4 DEF Receive, Worker, entryVars
  <2>1. produced' = produced /\ Layout'
    BY SameChunks
  <2>2. TypeOK'
    BY DEF TypeOK
  <2>3. Progress' /\ Announced'
    BY DEF Progress, Announced
  <2>. QED BY <2>1, <2>2, <2>3
<1>5. CASE AppendChunk
  <2> USE DEF AppendChunk, Worker
  <2>1. PICK size \in ChunkSizes : /\ produced + size <= MaxBytes
                                   /\ chunks' = Append(chunks, [i \in 1..size |-> produced + i])
    BY <1>5
  <2>2. size \in Nat \ {0}
    BY BytesAssumption
  <2>3. Chunks' /\ Layout' /\ produced' = produced + size
    BY <1>0, <2>1, <2>2, Appended
  <2>4. TypeOK'
    BY <1>5, <2>3 DEF TypeOK, Chunks
  <2>5. Progress' /\ Announced' /\ ~completed /\ ~completed'
    BY <1>5 DEF Progress, Announced
  <2>. QED BY <1>0, <1>5, <2>2, <2>3, <2>4, <2>5
<1>6. CASE MarkDirty
  <2> USE <1>6 DEF MarkDirty, Worker, entryVars, DirtyEnqueue
  <2>1. produced' = produced /\ Layout'
    BY SameChunks
  <2>2. queued' \in BOOLEAN /\ missed' \in BOOLEAN /\ (missed' <=> ~ queued')
    BY LossAssumption DEF TypeOK
  <2>3. TypeOK'
    BY <2>2 DEF TypeOK
  <2>4. Progress' /\ Announced'
    BY <2>2 DEF Progress, Announced
  <2>. QED BY <2>1, <2>3, <2>4
<1>7. CASE Complete
  <2> USE <1>7 DEF Complete, Worker
  <2>1. produced' = produced /\ Layout'
    BY SameChunks
  <2>2. TypeOK'
    BY DEF TypeOK
  <2>3. Progress' /\ Announced'
    BY DEF Progress, Announced
  <2>. QED BY <2>1, <2>2, <2>3
<1>8. CASE LastMark
  <2> USE <1>8 DEF LastMark, Worker, entryVars, DirtyEnqueue
  <2>1. produced' = produced /\ Layout'
    BY SameChunks
  <2>2. queued' \in BOOLEAN /\ missed' \in BOOLEAN /\ (missed' <=> ~ queued')
    BY LossAssumption DEF TypeOK
  <2>3. TypeOK'
    BY <2>2 DEF TypeOK
  <2>4. Progress' /\ Announced'
    BY <2>2 DEF Progress, Announced
  <2>. QED BY <2>1, <2>3, <2>4
<1>. QED BY <1>1, <1>2, <1>3, <1>4, <1>5, <1>6, <1>7, <1>8 DEF Download

(* What is announced reaches every parked session. *)
LEMMA DownloadInv ==
  ASSUME Inv, Download
  PROVE  Inv'
<1> USE DEF Inv
<1>1. /\ sess' = sess /\ got' = got /\ loop' = loop /\ todo' = todo
      /\ TypeOK' /\ Layout' /\ Progress' /\ Announced'
      /\ \/ produced' = produced /\ (completed => completed')
         \/ produced' > produced /\ produced \in Nat /\ produced' \in Nat /\ ~completed /\ ~completed'
  BY DownloadStep
<1>2. produced \in 0 .. MaxBytes /\ loop \in Place /\ sess \in [Clients -> Session]
  BY Types
<1>3. Received'
  <2>1. ASSUME NEW c \in Clients
        PROVE  sess'[c].cursor <= produced' /\ got'[c] = Prefix(sess'[c].cursor)
    <3>1. sess[c].cursor \in Nat
      BY <1>2 DEF Session
    <3>. QED BY <1>1, <1>2, <3>1 DEF Received
  <2>2. ASSUME loop.at = "body"
        PROVE  /\ sess[loop.c].cursor + Len(loop.data) <= produced'
               /\ \A j \in DOMAIN loop.data : loop.data[j] = sess[loop.c].cursor + j
    <3>1. loop.c \in Clients
      BY <2>2 DEF Places, InCallback
    <3>2. sess[loop.c].cursor \in Nat /\ Len(loop.data) \in Nat
      BY <1>2, <3>1 DEF Session, Place
    <3>. QED BY <1>1, <1>2, <2>2, <3>2 DEF Received
  <2>. QED BY <1>1, <2>1, <2>2 DEF Received
<1>4. Places'
  BY <1>1 DEF Places, InCallback, Subscribed
<1>5. StaleLook'
  BY <1>1 DEF StaleLook
<1>6. NoLostWakeup'
  BY <1>1 DEF NoLostWakeup, Announced
<1>. QED BY <1>1, <1>3, <1>4, <1>5, <1>6

(* The loop takes the dirty queue, or fails to. *)
LEMMA TakeDirtyInv ==
  ASSUME Inv, TakeDirty \/ CopyFails
  PROVE  Inv'
<1> USE DEF Inv
<1>1. UNCHANGED <<entryVars, worker, sess, got>> /\ loop.at = "idle"
  BY DEF TakeDirty, CopyFails
<1>2. produced' = produced /\ Layout'
  BY <1>1, SameChunks DEF entryVars
<1>3. loop \in Place /\ loop.at = "idle" /\ todo = {}
  BY <1>1, Types DEF Places
<1>4. Progress'
  BY <1>1 DEF Progress, entryVars
<1>5. CASE TakeDirty
  <2>1. Idle \in Place /\ [Idle EXCEPT !.at = "look"] \in Place
    BY IdlePlace
  <2>2. loop' \in Place /\ todo' \subseteq Clients /\ (\A c \in todo' : Subscribed(c))
    BY <1>5, <2>1 DEF TakeDirty, Subscribed
  <2>3. /\ loop'.at \in {"idle", "look"} /\ (todo' # {} => loop'.at = "look") /\ ~loop'.all
    BY <1>5 DEF TakeDirty, Idle
  <2>4. TypeOK'
    BY <1>1, <1>5, <2>2 DEF TypeOK, Place, entryVars, TakeDirty
  <2>5. Received'
    BY <1>1, <1>2, <2>3 DEF Received
  <2>6. Places' /\ StaleLook'
    BY <1>1, <2>2, <2>3 DEF Places, StaleLook, InCallback, Subscribed
  <2>7. NoLostWakeup'
    <3> SUFFICES ASSUME NEW c \in Clients, Subscribed(c)', ~sess'[c].writing, CanGoOn(c)', ~missed'
                 PROVE  \/ queued' /\ signalled'
                        \/ c \in todo'
                        \/ worker' \in {"append", "mark", "stop"}
                        \/ worker' = "recv" /\ header' = "none" /\ chunks' = <<>>
      BY DEF NoLostWakeup
    <3>1. Subscribed(c) /\ ~sess[c].writing /\ CanGoOn(c)
      BY <1>1, <1>2 DEF Subscribed, CanGoOn, entryVars
    <3>2. CASE queued
      BY <3>1, <3>2, <1>5 DEF TakeDirty
    <3>3. CASE ~queued
      BY <3>1, <3>3, <1>1, <1>3, <1>5 DEF TakeDirty, NoLostWakeup, entryVars
    <3>. QED BY <3>2, <3>3
  <2>. QED BY <1>2, <1>4, <2>4, <2>5, <2>6, <2>7
<1>6. CASE CopyFails
  <2>1. UNCHANGED <<loop, todo>> /\ missed' = TRUE /\ queued' \in BOOLEAN /\ signalled' \in BOOLEAN
    BY <1>6 DEF CopyFails, TypeOK
  <2>2. TypeOK'
    BY <1>1, <2>1 DEF TypeOK, entryVars
  <2>3. Received' /\ Places' /\ StaleLook' /\ NoLostWakeup'
    BY <1>1, <1>2, <2>1 DEF Received, Places, StaleLook, NoLostWakeup, InCallback, Subscribed
  <2>. QED BY <1>2, <1>4, <2>2, <2>3
<1>. QED BY <1>5, <1>6

-----------------------------------------------------------------------------
(* A step of the event loop *)

(* What a step of the loop leaves as it is *)
LEMMA LoopKeeps ==
  ASSUME Inv, Loop
  PROVE  /\ produced' = produced /\ Layout' /\ Progress' /\ (Announced' <=> Announced)
         /\ \A c : CanGoOn(c)' <=> \/ sess'[c].headerSent < HeaderSize /\ ready
                                   \/ sess'[c].cursor < produced \/ completed
<1>1. produced' = produced /\ Layout'
  BY SameChunks DEF Loop, entryVars, Inv
<1>2. Progress' /\ (Announced' <=> Announced)
  BY DEF Loop, entryVars, Inv, Progress, Announced
<1>3. ready' = ready /\ completed' = completed
  BY DEF Loop, entryVars
<1>. QED BY <1>1, <1>2, <1>3 DEF CanGoOn

(* What is left to show of the types *)
LEMMA LoopTypes ==
  ASSUME Inv, Loop, sess' \in [Clients -> Session], got' \in [Clients -> Seq(1 .. MaxBytes)],
         loop' \in Place, todo' \subseteq Clients
  PROVE  TypeOK'
  BY DEF Inv, TypeOK, Loop, entryVars, Session, Place

(* Nothing is sent. *)
LEMMA ReceivedKept ==
  ASSUME Inv, Loop, UNCHANGED got, \A c \in Clients : sess'[c].cursor = sess[c].cursor,
         loop'.at # "body"
  PROVE  Received'
  BY LoopKeeps DEF Inv, Received

(* Only a session that the loop parks can miss its wake-up. *)
LEMMA WakeupKept ==
  ASSUME Inv, Loop,
         \A c \in Clients : Subscribed(c)' /\ ~sess'[c].writing /\ CanGoOn(c)'
           => \/ Announced
              \/ Subscribed(c) /\ ~sess[c].writing /\ CanGoOn(c) /\ (c \in todo => c \in todo')
  PROVE  NoLostWakeup'
<1> SUFFICES ASSUME NEW c \in Clients, Subscribed(c)', ~sess'[c].writing, CanGoOn(c)', ~missed'
             PROVE  \/ queued' /\ signalled'
                    \/ c \in todo'
                    \/ worker' \in {"append", "mark", "stop"}
                    \/ worker' = "recv" /\ header' = "none" /\ chunks' = <<>>
  BY DEF NoLostWakeup
<1>. QED BY DEF Inv, NoLostWakeup, Announced, Loop, entryVars

(* No look at the entry is under way: nothing can be stale. *)
LEMMA LookKept ==
  ASSUME loop'.at # "wake"
  PROVE  StaleLook'
  BY DEF StaleLook

(* A new subscriber is writing. *)
LEMMA JoinInv ==
  ASSUME Inv, NEW c \in Clients, Join(c)
  PROVE  Inv'
<1>1. Loop /\ UNCHANGED <<got, loop, todo>> /\ loop.at = "idle" /\ sess[c].st = "none"
      /\ sess' = [sess EXCEPT ![c].st = "stream", ![c].writing = TRUE]
  BY DEF Join
<1>2. sess \in [Clients -> Session]
  BY Types DEF Inv
<1>3. /\ sess' \in [Clients -> Session] /\ sess'[c].writing = TRUE
      /\ \A x \in Clients : x # c => sess'[x] = sess[x]
      /\ \A x \in Clients : sess'[x].cursor = sess[x].cursor /\ sess'[x].headerSent = sess[x].headerSent
                            /\ (Subscribed(x) => sess'[x].st = "stream")
  BY <1>1, <1>2 DEF Session, Subscribed
<1>4. TypeOK'
  BY <1>1, <1>3, LoopTypes, Types DEF Inv, TypeOK
<1>5. Received' /\ StaleLook'
  BY <1>1, <1>3, ReceivedKept, LookKept
<1>6. Places'
  BY <1>1, <1>3 DEF Inv, Places, InCallback, Subscribed
<1>7. NoLostWakeup'
  BY <1>1, <1>3, LoopKeeps, WakeupKept DEF CanGoOn, Subscribed
<1>. QED BY <1>1, <1>4, <1>5, <1>6, <1>7, LoopKeeps DEF Inv

(* The first look at the entry *)
LEMMA LookAtInv ==
  ASSUME Inv, NEW c \in Clients, LookAt(c)
  PROVE  Inv'
<1>1. Loop /\ UNCHANGED <<sess, got, todo>> /\ loop.at = "look" /\ c \in todo
      /\ loop' = [loop EXCEPT !.at = "wake", !.c = c, !.ready = ready, !.completed = completed]
  BY DEF LookAt
<1>2. loop \in Place /\ ready \in BOOLEAN /\ completed \in BOOLEAN
  BY Types DEF Inv, TypeOK
<1>3. loop' \in Place /\ loop'.at = "wake" /\ loop'.c = c /\ loop'.ready = ready /\ loop'.completed = completed
      /\ loop'.all = loop.all
  BY <1>1, <1>2 DEF Place
<1>4. TypeOK'
  BY <1>1, <1>3, LoopTypes, Types DEF Inv, TypeOK
<1>5. Received'
  BY <1>1, <1>3, ReceivedKept
<1>6. Places'
  BY <1>1, <1>3 DEF Inv, Places, InCallback, Subscribed
<1>7. StaleLook'
  BY <1>1, <1>3 DEF StaleLook, Loop, entryVars
<1>8. NoLostWakeup'
  BY <1>1, LoopKeeps, WakeupKept DEF CanGoOn, Subscribed
<1>. QED BY <1>1, <1>4, <1>5, <1>6, <1>7, <1>8, LoopKeeps DEF Inv

(* The second look: who stays parked has missed only what is announced. *)
LEMMA WakeUpInv ==
  ASSUME Inv, WakeUp
  PROVE  Inv'
<1> DEFINE d == loop.c
           on == \/ sess[d].headerSent < HeaderSize /\ loop.ready
                 \/ sess[d].cursor < produced
                 \/ loop.completed
<1>1. Loop /\ UNCHANGED got /\ loop.at = "wake" /\ sess' = [sess EXCEPT ![d].writing = on]
      /\ todo' = todo \ {d} /\ loop' = IF todo' = {} THEN Idle ELSE [Idle EXCEPT !.at = "look"]
  BY DEF WakeUp
<1>2. sess \in [Clients -> Session] /\ d \in Clients /\ d \in todo /\ on \in BOOLEAN /\ todo \subseteq Clients
  BY <1>1, Types DEF Inv, Places, TypeOK, Place
<1> HIDE DEF on
<1>3. /\ sess' \in [Clients -> Session] /\ sess'[d].writing = on
      /\ \A x \in Clients : x # d => sess'[x] = sess[x]
      /\ \A x \in Clients : sess'[x].cursor = sess[x].cursor /\ sess'[x].headerSent = sess[x].headerSent
                            /\ sess'[x].st = sess[x].st
  BY <1>1, <1>2 DEF Session
<1>4. loop' \in Place /\ ~loop'.all /\ loop'.at \in {"idle", "look"} /\ (todo' # {} => loop'.at = "look")
  BY <1>1, IdlePlace DEF Idle
<1>5. TypeOK'
  BY <1>1, <1>2, <1>3, <1>4, LoopTypes DEF Inv, TypeOK
<1>6. Received' /\ StaleLook'
  BY <1>1, <1>3, <1>4, ReceivedKept, LookKept
<1>7. Places'
  BY <1>1, <1>2, <1>3, <1>4 DEF Inv, Places, InCallback, Subscribed
<1>8. ASSUME NEW x \in Clients, Subscribed(x)', ~sess'[x].writing, CanGoOn(x)'
      PROVE  \/ Announced
             \/ Subscribed(x) /\ ~sess[x].writing /\ CanGoOn(x) /\ (x \in todo => x \in todo')
  <2>1. \/ sess[x].headerSent < HeaderSize /\ ready
        \/ sess[x].cursor < produced \/ completed
    BY <1>1, <1>3, <1>8, LoopKeeps
  <2>2. CASE x # d
    BY <1>1, <1>3, <1>8, <2>1, <2>2 DEF Subscribed, CanGoOn
  <2>3. CASE x = d
    BY <1>1, <1>3, <1>8, <2>1, <2>3 DEF on, Inv, StaleLook
  <2>. QED BY <2>2, <2>3
<1>9. NoLostWakeup'
  BY <1>1, <1>8, WakeupKept
<1>. QED BY <1>1, <1>5, <1>6, <1>7, <1>9, LoopKeeps DEF Inv

(* Without a header yet, the session is parked: there is nothing to send. *)
LEMMA StartWriteInv ==
  ASSUME Inv, NEW c \in Clients, StartWrite(c)
  PROVE  Inv'
<1>1. Loop /\ UNCHANGED <<got, todo>> /\ loop.at = "idle" /\ Subscribed(c) /\ sess[c].writing
  BY DEF StartWrite
<1>2. sess \in [Clients -> Session] /\ todo = {} /\ Chunks
  BY <1>1, Types DEF Inv, Places
<1>3. CASE sess[c].headerSent = HeaderSize \/ ready
  <2>1. UNCHANGED sess /\ \/ loop' = [Idle EXCEPT !.at = "chunk", !.c = c] /\ sess[c].headerSent = HeaderSize
                          \/ loop' = [Idle EXCEPT !.at = "header", !.c = c]
    BY <1>3 DEF StartWrite
  <2>2. loop' \in Place /\ ~loop'.all /\ loop'.c = c
        /\ ((loop'.at = "chunk" /\ sess[c].headerSent = HeaderSize) \/ loop'.at = "header")
    BY <2>1, IdlePlace DEF Idle, Place
  <2>3. TypeOK'
    BY <1>1, <1>2, <2>1, <2>2, LoopTypes DEF Inv, TypeOK
  <2>4. Received' /\ StaleLook'
    BY <1>1, <2>1, <2>2, ReceivedKept, LookKept
  <2>5. Places'
    BY <1>1, <1>2, <2>1, <2>2 DEF Inv, Places, InCallback, Subscribed
  <2>6. NoLostWakeup'
    BY <1>1, <2>1, LoopKeeps, WakeupKept DEF CanGoOn, Subscribed
  <2>. QED BY <1>1, <2>3, <2>4, <2>5, <2>6, LoopKeeps DEF Inv
<1>4. CASE ~ (sess[c].headerSent = HeaderSize \/ ready)
  <2>1. Park(c) /\ ~ready
    BY <1>4 DEF StartWrite
  <2>2. /\ sess' \in [Clients -> Session]
        /\ \A x \in Clients : x # c => sess'[x] = sess[x]
        /\ \A x \in Clients : sess'[x].cursor = sess[x].cursor /\ sess'[x].headerSent = sess[x].headerSent
                              /\ sess'[x].st = sess[x].st
    BY <1>2, <2>1 DEF Session, Park
  <2>3. loop' = Idle /\ Idle \in Place /\ loop'.at = "idle" /\ ~loop'.all
    BY <2>1, IdlePlace DEF Park
  <2>4. TypeOK'
    BY <1>1, <2>2, <2>3, LoopTypes DEF Inv, TypeOK
  <2>5. Received' /\ StaleLook'
    BY <1>1, <2>2, <2>3, ReceivedKept, LookKept
  <2>6. Places'
    BY <1>1, <1>2, <2>2, <2>3 DEF Inv, Places, InCallback, Subscribed
  <2>7. produced = 0 /\ ~completed
    <3>1. worker = "connect" /\ chunks = <<>> /\ ~completed
      BY <2>1 DEF Inv, Progress
    <3>2. Start(Len(chunks) + 1) = produced /\ Start(1) = 0 /\ Len(chunks) = 0
      BY <1>2, <3>1, Starts
    <3>. QED BY <3>1, <3>2
  <2>8. ASSUME NEW x \in Clients, Subscribed(x)', ~sess'[x].writing, CanGoOn(x)'
        PROVE  FALSE
    <3>1. sess[x].cursor \in Nat
      BY <1>2 DEF Session
    <3>. QED BY <1>1, <2>1, <2>2, <2>7, <2>8, <3>1, LoopKeeps
  <2>9. NoLostWakeup'
    BY <1>1, <2>8, WakeupKept
  <2>. QED BY <1>1, <2>4, <2>5, <2>6, <2>9, LoopKeeps DEF Inv
<1>. QED BY <1>3, <1>4

(* client_write_callback before the body: nobody is parked. *)
LEMMA HeaderInv ==
  ASSUME Inv, ReadHeader \/ CopyHeader \/ SendHeader
  PROVE  Inv'
<1> DEFINE d == loop.c
<1>1. Loop /\ UNCHANGED <<got, todo>> /\ loop.at \in {"header", "copy", "send"}
  BY DEF ReadHeader, CopyHeader, SendHeader
<1>2. sess \in [Clients -> Session] /\ loop \in Place /\ d \in Clients /\ Subscribed(d) /\ todo = {} /\ ~loop.all
      /\ HeaderSize \in Nat /\ header \in {"none", "origin"}
  BY <1>1, Types DEF Inv, Places, InCallback, TypeOK
<1>3. /\ sess' \in [Clients -> Session]
      /\ \A x \in Clients : /\ sess'[x].cursor = sess[x].cursor /\ sess'[x].st = sess[x].st
                            /\ sess'[x].writing = sess[x].writing
                            /\ sess'[x].headerSent >= sess[x].headerSent
      /\ loop' \in Place /\ ~loop'.all
      /\ \/ loop'.at \in {"copy", "send"} /\ loop'.c = d
         \/ loop'.at = "chunk" /\ loop'.c = d /\ sess'[d].headerSent = HeaderSize
         \/ loop'.at = "idle"
  <2>1. CASE ReadHeader
    <3>1. sess' = sess /\ loop' \in Place /\ loop'.all = loop.all /\ loop'.c = d /\ loop'.at \in {"copy", "send"}
      BY <1>2, <2>1 DEF ReadHeader, Place
    <3>2. \A x \in Clients : sess[x].headerSent \in 0 .. HeaderSize
      BY <1>2 DEF Session
    <3>. QED BY <1>2, <3>1, <3>2
  <2>2. CASE CopyHeader
    <3>1. loop' \in Place /\ loop'.all = loop.all /\ loop'.c = d /\ loop'.at = "send"
      BY <1>2, <2>2 DEF CopyHeader, Place
    <3>2. /\ sess' \in [Clients -> Session]
          /\ \A x \in Clients : /\ sess'[x].cursor = sess[x].cursor /\ sess'[x].st = sess[x].st
                                /\ sess'[x].writing = sess[x].writing
                                /\ sess'[x].headerSent = sess[x].headerSent
      BY <1>2, <2>2 DEF CopyHeader, Session
    <3>3. \A x \in Clients : sess[x].headerSent \in 0 .. HeaderSize
      BY <1>2 DEF Session
    <3>. QED BY <1>2, <3>1, <3>2, <3>3
  <2>3. CASE SendHeader
    <3>1. PICK sent \in sess[d].headerSent + 1 .. HeaderSize :
             /\ sess' = [sess EXCEPT ![d].headerSent = sent]
             /\ loop' = IF sent = HeaderSize THEN [loop EXCEPT !.at = "chunk", !.room = FALSE] ELSE Idle
      BY <2>3 DEF SendHeader
    <3>2. \A x \in Clients : sess[x].headerSent \in 0 .. HeaderSize
      BY <1>2 DEF Session
    <3>3. sent \in 0 .. HeaderSize /\ sent >= sess[d].headerSent
      BY <1>2, <3>1, <3>2
    <3>4. /\ sess' \in [Clients -> Session] /\ sess'[d].headerSent = sent
          /\ \A x \in Clients : /\ sess'[x].cursor = sess[x].cursor /\ sess'[x].st = sess[x].st
                                /\ sess'[x].writing = sess[x].writing
                                /\ x # d => sess'[x].headerSent = sess[x].headerSent
      BY <1>2, <3>1, <3>3 DEF Session
    <3>5. CASE sent = HeaderSize
      <4>1. loop' \in Place /\ loop'.all = loop.all /\ loop'.c = d /\ loop'.at = "chunk"
        BY <1>2, <3>1, <3>5 DEF Place
      <4>. QED BY <1>2, <3>2, <3>3, <3>4, <3>5, <4>1
    <3>6. CASE sent # HeaderSize
      <4>1. loop' \in Place /\ ~loop'.all /\ loop'.at = "idle"
        BY <3>1, <3>6, IdlePlace
      <4>. QED BY <1>2, <3>2, <3>3, <3>4, <4>1
    <3>. QED BY <3>5, <3>6
  <2>. QED BY <2>1, <2>2, <2>3
<1>4. TypeOK'
  BY <1>1, <1>3, LoopTypes DEF Inv, TypeOK
<1>5. Received' /\ StaleLook'
  BY <1>1, <1>3, ReceivedKept, LookKept
<1>6. Places'
  BY <1>1, <1>2, <1>3 DEF Inv, Places, InCallback, Subscribed
<1>7. ASSUME NEW x \in Clients, Subscribed(x)', ~sess'[x].writing, CanGoOn(x)'
      PROVE  Subscribed(x) /\ ~sess[x].writing /\ CanGoOn(x)
  <2>1. sess[x].headerSent \in Nat /\ sess'[x].headerSent \in Nat
    BY <1>2, <1>3 DEF Session
  <2>. QED BY <1>1, <1>2, <1>3, <1>7, <2>1, LoopKeeps DEF CanGoOn, Subscribed
<1>8. NoLostWakeup'
  BY <1>1, <1>7, WakeupKept
<1>. QED BY <1>1, <1>4, <1>5, <1>6, <1>8, LoopKeeps DEF Inv

(* A session ends. *)
LEMMA CloseInv ==
  ASSUME Inv, Loop, UNCHANGED <<got, todo>>, InCallback, NEW how \in {"done", "error"}, Close(loop.c, how)
  PROVE  Inv'
<1> DEFINE d == loop.c
<1>1. sess \in [Clients -> Session] /\ d \in Clients /\ todo = {}
  BY Types DEF Inv, Places, InCallback
<1>2. /\ sess' \in [Clients -> Session] /\ sess'[d].st = how
      /\ \A x \in Clients : x # d => sess'[x] = sess[x]
      /\ \A x \in Clients : sess'[x].cursor = sess[x].cursor /\ sess'[x].headerSent = sess[x].headerSent
  BY <1>1 DEF Session, Close
<1>3. loop' \in Place /\ loop'.at = "idle" /\ ~loop'.all
  BY IdlePlace DEF Close
<1>4. TypeOK'
  BY <1>2, <1>3, LoopTypes DEF Inv, TypeOK
<1>5. Received' /\ StaleLook'
  BY <1>2, <1>3, ReceivedKept, LookKept
<1>6. Places'
  BY <1>1, <1>2, <1>3 DEF Inv, Places, InCallback, Subscribed
<1>7. NoLostWakeup'
  BY <1>1, <1>2, LoopKeeps, WakeupKept DEF CanGoOn, Subscribed
<1>. QED BY <1>4, <1>5, <1>6, <1>7, LoopKeeps DEF Inv

(* A client that is gone is one that ends. *)
LEMMA SendFailsInv ==
  ASSUME Inv, SendFails
  PROVE  Inv'
  BY CloseInv DEF SendFails, InCallback

(* The chunk at the cursor *)
LEMMA GetChunkInv ==
  ASSUME Inv, GetChunk
  PROVE  Inv'
<1> DEFINE d == loop.c
           data == ChunkFrom(sess[d].cursor)
<1>1. Loop /\ UNCHANGED <<sess, got, todo>> /\ loop.at = "chunk"
      /\ loop' = [loop EXCEPT !.at = IF data = <<>> THEN "miss" ELSE "body", !.data = data]
  BY DEF GetChunk
<1>2. sess \in [Clients -> Session] /\ loop \in Place /\ d \in Clients /\ todo = {} /\ Chunks /\ Layout
  BY <1>1, Types DEF Inv, Places, InCallback
<1>3. sess[d].cursor \in 0 .. produced
  <2>1. sess[d].cursor \in Nat /\ produced \in Nat
    BY <1>2, Starts DEF Session
  <2>. QED BY <1>2, <2>1 DEF Inv, Received
<1>4. /\ data \in Seq(1 .. MaxBytes) /\ sess[d].cursor + Len(data) <= produced
      /\ \A j \in DOMAIN data : data[j] = sess[d].cursor + j
  BY <1>2, <1>3, ChunkFromBytes
<1> HIDE DEF data
<1>5. /\ loop' \in Place /\ loop'.at \in {"miss", "body"} /\ loop'.c = d /\ loop'.data = data /\ loop'.all = loop.all
  BY <1>1, <1>2, <1>4 DEF Place
<1>6. TypeOK'
  BY <1>1, <1>2, <1>5, LoopTypes DEF Inv, TypeOK
<1>7. Received'
  BY <1>1, <1>4, <1>5, LoopKeeps DEF Inv, Received
<1>8. Places' /\ StaleLook'
  BY <1>1, <1>2, <1>5 DEF Inv, Places, InCallback, Subscribed, StaleLook
<1>9. NoLostWakeup'
  BY <1>1, LoopKeeps, WakeupKept DEF CanGoOn, Subscribed
<1>. QED BY <1>1, <1>6, <1>7, <1>8, <1>9, LoopKeeps DEF Inv

(* The bytes go on where the client's last ones ended. *)
LEMMA Extended ==
  ASSUME NEW k \in Nat, NEW data \in Seq(1 .. MaxBytes), \A j \in DOMAIN data : data[j] = k + j,
         NEW n \in 0 .. Len(data), Prefix(k) \in Seq(1 .. MaxBytes)
  PROVE  /\ Prefix(k) \o SubSeq(data, 1, n) = Prefix(k + n)
         /\ Prefix(k + n) \in Seq(1 .. MaxBytes)
<1> DEFINE a == Prefix(k)
           b == SubSeq(data, 1, n)
<1>1. a \in Seq(1 .. MaxBytes) /\ Len(a) = k /\ \A i \in 1 .. k : a[i] = i
  BY DEF Prefix
<1>2. b \in Seq(1 .. MaxBytes) /\ Len(b) = n /\ \A i \in 1 .. n : b[i] = k + i
  <2>1. 1 \in Int /\ n \in Int /\ \A j \in 1 .. n : j \in DOMAIN data /\ data[j] \in 1 .. MaxBytes
    <3>1. Len(data) \in Nat /\ DOMAIN data = 1 .. Len(data)
      BY LenProperties
    <3>2. \A j \in 1 .. n : j \in 1 .. Len(data)
      BY <3>1
    <3>3. \A j \in 1 .. Len(data) : data[j] \in 1 .. MaxBytes
      BY ElementOfSeq
    <3>. QED BY <3>1, <3>2, <3>3
  <2>2. /\ b \in Seq(1 .. MaxBytes) /\ Len(b) = IF 1 <= n THEN n - 1 + 1 ELSE 0
        /\ \A i \in 1 .. n - 1 + 1 : b[i] = data[1 + i - 1]
    BY <2>1, SubSeqProperties
  <2>3. n - 1 + 1 = n /\ \A i \in 1 .. n : 1 + i - 1 = i
    OBVIOUS
  <2>. QED BY <2>1, <2>2, <2>3
<1> HIDE DEF a, b
<1>3. /\ a \o b \in Seq(1 .. MaxBytes) /\ Len(a \o b) = k + n
      /\ \A i \in 1 .. k + n : (a \o b)[i] = IF i <= k THEN a[i] ELSE b[i - k]
  BY <1>1, <1>2, ConcatProperties
<1>4. \A i \in 1 .. k + n : (a \o b)[i] = i
  <2> SUFFICES ASSUME NEW i \in 1 .. k + n PROVE (a \o b)[i] = i
    OBVIOUS
  <2>1. CASE i <= k
    BY <1>1, <1>3, <2>1
  <2>2. CASE ~ (i <= k)
    <3>1. i - k \in 1 .. n
      BY <2>2
    <3>. QED BY <1>2, <1>3, <2>2, <3>1
  <2>. QED BY <2>1, <2>2
<1>5. a \o b = Prefix(k + n)
  <2> DEFINE c == a \o b
  <2>1. c = [i \in 1 .. k + n |-> c[i]]
    <3> HIDE DEF c
    <3>1. c \in [1 .. k + n -> 1 .. MaxBytes]
      BY <1>3, LenProperties DEF c
    <3>. QED BY <3>1
  <2>. QED BY <1>4, <2>1 DEF Prefix
<1>. QED BY <1>3, <1>5 DEF a, b

(* What SendBody does to the session and its client *)
LEMMA Sent ==
  ASSUME Inv, NEW n \in 0 .. MaxBytes, SendBody(n)
  PROVE  LET d == loop.c
             k == sess[d].cursor IN
         /\ d \in Clients /\ Subscribed(d) /\ k \in Nat /\ k + n <= produced /\ produced \in 0 .. MaxBytes
         /\ got[d] = Prefix(k)
         /\ got' = [got EXCEPT ![d] = Prefix(k + n)]
         /\ got' \in [Clients -> Seq(1 .. MaxBytes)]
         /\ sess' \in [Clients -> Session] /\ sess'[d].cursor = k + n
         /\ \A x \in Clients : /\ x # d => sess'[x] = sess[x]
                               /\ sess'[x].st = sess[x].st /\ sess'[x].writing = sess[x].writing
                               /\ sess'[x].headerSent = sess[x].headerSent
         /\ loop' \in Place /\ loop'.at = "after" /\ loop'.c = d /\ loop'.all = loop.all
<1> DEFINE d == loop.c
           k == sess[d].cursor
<1>1. sess \in [Clients -> Session] /\ loop \in Place /\ d \in Clients /\ Subscribed(d) /\ loop.at = "body"
      /\ produced \in 0 .. MaxBytes /\ got \in [Clients -> Seq(1 .. MaxBytes)] /\ MaxBytes \in Nat
  BY Types DEF Inv, Places, InCallback, SendBody, TypeOK
<1>2. k \in Nat /\ loop.data \in Seq(1 .. MaxBytes) /\ n \in 0 .. Len(loop.data)
  BY <1>1 DEF Session, Place, SendBody
<1>3. k + Len(loop.data) <= produced /\ (\A j \in DOMAIN loop.data : loop.data[j] = k + j) /\ got[d] = Prefix(k)
  BY <1>1 DEF Inv, Received
<1>4. Prefix(k) \o SubSeq(loop.data, 1, n) = Prefix(k + n) /\ Prefix(k + n) \in Seq(1 .. MaxBytes)
  <2>1. Prefix(k) \in Seq(1 .. MaxBytes)
    BY <1>1, <1>3
  <2>. QED BY <1>2, <1>3, <2>1, Extended
<1>5. got' = [got EXCEPT ![d] = Prefix(k + n)]
  BY <1>1, <1>3, <1>4 DEF SendBody
<1>6. got' \in [Clients -> Seq(1 .. MaxBytes)]
  BY <1>1, <1>4, <1>5
<1>7. k + n <= produced /\ k + n \in 0 .. MaxBytes
  BY <1>1, <1>2, <1>3
<1>8. sess' = [sess EXCEPT ![d].cursor = k + n]
  BY <1>1 DEF SendBody
<1>9. /\ sess' \in [Clients -> Session] /\ sess'[d].cursor = k + n
      /\ \A x \in Clients : /\ x # d => sess'[x] = sess[x]
                            /\ sess'[x].st = sess[x].st /\ sess'[x].writing = sess[x].writing
                            /\ sess'[x].headerSent = sess[x].headerSent
  <2> HIDE DEF k
  <2>. QED BY <1>1, <1>7, <1>8 DEF Session
<1>10. loop' \in Place /\ loop'.at = "after" /\ loop'.c = d /\ loop'.all = loop.all
  <2>1. <<>> \in Seq(1 .. MaxBytes)
    OBVIOUS
  <2>. QED BY <1>1, <2>1 DEF SendBody, Place
<1>. QED BY <1>1, <1>2, <1>3, <1>5, <1>6, <1>7, <1>9, <1>10

(* Some of the chunk is sent. *)
LEMMA SendBodyInv ==
  ASSUME Inv, NEW n \in 0 .. MaxBytes, SendBody(n)
  PROVE  Inv'
<1> DEFINE d == loop.c
           k == sess[d].cursor
<1>1. Loop /\ UNCHANGED todo /\ loop.at = "body"
  BY DEF SendBody
<1>2. sess \in [Clients -> Session] /\ todo = {} /\ sess[d].headerSent = HeaderSize /\ ~loop.all
      /\ got \in [Clients -> Seq(1 .. MaxBytes)]
  BY <1>1, Types DEF Inv, Places, TypeOK
<1>3. /\ d \in Clients /\ Subscribed(d) /\ k \in Nat /\ k + n <= produced /\ produced \in 0 .. MaxBytes
      /\ got' = [got EXCEPT ![d] = Prefix(k + n)]
      /\ got' \in [Clients -> Seq(1 .. MaxBytes)]
      /\ sess' \in [Clients -> Session] /\ sess'[d].cursor = k + n
      /\ \A x \in Clients : /\ x # d => sess'[x] = sess[x]
                            /\ sess'[x].st = sess[x].st /\ sess'[x].writing = sess[x].writing
                            /\ sess'[x].headerSent = sess[x].headerSent
      /\ loop' \in Place /\ loop'.at = "after" /\ loop'.c = d /\ loop'.all = loop.all
  BY Sent
<1>4. TypeOK'
  BY <1>1, <1>3, LoopTypes DEF Inv, TypeOK
<1>5. Received'
  <2>1. got'[d] = Prefix(k + n) /\ \A x \in Clients : x # d => got'[x] = got[x]
    BY <1>2, <1>3
  <2>. QED BY <1>1, <1>3, <2>1, LoopKeeps DEF Inv, Received
<1>6. Places' /\ StaleLook'
  BY <1>1, <1>2, <1>3 DEF Inv, Places, InCallback, Subscribed, StaleLook
<1>7. ASSUME NEW x \in Clients, Subscribed(x)', ~sess'[x].writing, CanGoOn(x)'
      PROVE  Subscribed(x) /\ ~sess[x].writing /\ CanGoOn(x)
  <2>1. CASE x # d
    BY <1>1, <1>3, <1>7, <2>1, LoopKeeps DEF CanGoOn, Subscribed
  <2>2. CASE x = d
    BY <1>1, <1>3, <1>7, <2>2, LoopKeeps DEF CanGoOn, Subscribed
  <2>. QED BY <2>1, <2>2
<1>8. NoLostWakeup'
  BY <1>1, <1>7, WakeupKept
<1>. QED BY <1>1, <1>4, <1>5, <1>6, <1>8, LoopKeeps DEF Inv

(* After the last chunk *)
LEMMA CheckEndInv ==
  ASSUME Inv, CheckEnd
  PROVE  Inv'
<1> DEFINE d == loop.c
           end == completed /\ sess[d].cursor >= produced
<1>1. Loop /\ UNCHANGED <<sess, got, todo>> /\ loop.at = "miss"
      /\ loop' = [loop EXCEPT !.at = "after", !.all = end]
  BY DEF CheckEnd
<1>2. sess \in [Clients -> Session] /\ loop \in Place /\ d \in Clients /\ todo = {} /\ produced \in Nat /\ end \in BOOLEAN
  BY <1>1, Types, Starts DEF Inv, Places, InCallback, TypeOK
<1>3. end => completed /\ sess[d].cursor = produced
  <2>1. sess[d].cursor \in Nat /\ sess[d].cursor <= produced
    BY <1>2 DEF Inv, Received, Session
  <2>. QED BY <1>2, <2>1
<1> HIDE DEF end
<1>4. loop' \in Place /\ loop'.at = "after" /\ loop'.c = d /\ loop'.all = end
  BY <1>1, <1>2 DEF Place
<1>5. TypeOK'
  BY <1>1, <1>2, <1>4, LoopTypes DEF Inv, TypeOK
<1>6. Received' /\ StaleLook'
  BY <1>1, <1>4, ReceivedKept, LookKept
<1>7. completed' = completed /\ produced' = produced
  BY <1>1, LoopKeeps DEF Loop, entryVars
<1>8. Places'
  BY <1>1, <1>2, <1>3, <1>4, <1>7 DEF Inv, Places, InCallback, Subscribed
<1>9. NoLostWakeup'
  BY <1>1, LoopKeeps, WakeupKept DEF CanGoOn, Subscribed
<1>. QED BY <1>1, <1>5, <1>6, <1>8, <1>9, LoopKeeps DEF Inv

(* The session is parked only when it has all there is. *)
LEMMA EndWriteInv ==
  ASSUME Inv, EndWrite
  PROVE  Inv'
<1> DEFINE d == loop.c
<1>1. Loop /\ UNCHANGED <<got, todo>> /\ loop.at = "after" /\ InCallback
  BY DEF EndWrite, InCallback
<1>2. sess \in [Clients -> Session] /\ loop \in Place /\ d \in Clients /\ todo = {} /\ sess[d].headerSent = HeaderSize
      /\ produced \in Nat /\ HeaderSize \in Nat
  BY <1>1, Types, Starts DEF Inv, Places, InCallback
<1>3. CASE loop.all /\ completed
  BY <1>1, <1>3, CloseInv DEF EndWrite
<1>4. CASE ~(loop.all /\ completed) /\ ~loop.all /\ ~completed /\ sess[d].cursor >= produced
  <2>1. Park(d)
    BY <1>4 DEF EndWrite
  <2>2. /\ sess' \in [Clients -> Session]
        /\ \A x \in Clients : x # d => sess'[x] = sess[x]
        /\ \A x \in Clients : sess'[x].cursor = sess[x].cursor /\ sess'[x].headerSent = sess[x].headerSent
                              /\ sess'[x].st = sess[x].st
    BY <1>2, <2>1 DEF Session, Park
  <2>3. loop' \in Place /\ loop'.at = "idle" /\ ~loop'.all
    BY <2>1, IdlePlace DEF Park
  <2>4. TypeOK'
    BY <1>1, <2>2, <2>3, LoopTypes DEF Inv, TypeOK
  <2>5. Received' /\ StaleLook'
    BY <1>1, <2>2, <2>3, ReceivedKept, LookKept
  <2>6. Places'
    BY <1>1, <1>2, <2>2, <2>3 DEF Inv, Places, InCallback, Subscribed
  <2>7. sess[d].cursor \in Nat
    BY <1>2 DEF Session
  <2>8. NoLostWakeup'
    BY <1>1, <1>2, <1>4, <2>2, <2>7, LoopKeeps, WakeupKept DEF CanGoOn, Subscribed
  <2>. QED BY <1>1, <2>4, <2>5, <2>6, <2>8, LoopKeeps DEF Inv
<1>5. CASE ~(loop.all /\ completed) /\ ~(~loop.all /\ ~completed /\ sess[d].cursor >= produced)
  <2>1. loop' = Idle /\ UNCHANGED sess
    BY <1>5 DEF EndWrite
  <2>2. loop' \in Place /\ loop'.at = "idle" /\ ~loop'.all
    BY <2>1, IdlePlace
  <2>3. TypeOK'
    BY <1>1, <1>2, <2>1, <2>2, LoopTypes DEF Inv, TypeOK
  <2>4. Received' /\ StaleLook'
    BY <1>1, <2>1, <2>2, ReceivedKept, LookKept
  <2>5. Places'
    BY <1>1, <1>2, <2>1, <2>2 DEF Inv, Places, InCallback, Subscribed
  <2>6. NoLostWakeup'
    BY <1>1, <2>1, LoopKeeps, WakeupKept DEF CanGoOn, Subscribed
  <2>. QED BY <1>1, <2>3, <2>4, <2>5, <2>6, LoopKeeps DEF Inv
<1>. QED BY <1>3, <1>4, <1>5

(* Every step preserves the invariant. *)
LEMMA NextInv ==
  ASSUME Inv, [Next]_vars
  PROVE  Inv'
<1>1. CASE UNCHANGED vars
  <2> USE <1>1 DEF vars
  <2>1. produced' = produced /\ Layout'
    BY SameChunks DEF Inv
  <2>2. TypeOK' /\ Progress' /\ Places' /\ Announced' = Announced
    BY <2>1 DEF Inv, TypeOK, Progress, Places, InCallback, Subscribed, Announced
  <2>3. Received' /\ StaleLook'
    BY <2>1, <2>2 DEF Inv, Received, StaleLook
  <2>4. NoLostWakeup'
    BY <2>1 DEF Inv, NoLostWakeup, Subscribed, CanGoOn
  <2>. QED BY <2>1, <2>2, <2>3, <2>4 DEF Inv
<1>. QED BY <1>1, DownloadInv, TakeDirtyInv, WakeUpInv, HeaderInv, SendFailsInv, GetChunkInv,
            CheckEndInv, EndWriteInv, LookAtInv, SendBodyInv, JoinInv, StartWriteInv
         DEF Next, Callback

(* Every reachable state of entry, thread and sessions has it. *)
THEOREM Invariance == Spec => []Inv
<1>. QED BY InitInv, NextInv, PTL DEF Spec

-----------------------------------------------------------------------------
(* The refinement *)

(* The two specifications mean the same by a prefix. *)
LEMMA SamePrefix == \A n : Abstract!Prefix(n) = Prefix(n)
  BY DEF Abstract!Prefix, Prefix

(* What a session is to the abstract specification *)
Role(st) == CASE st = "none"   -> "away"
              [] st = "stream" -> "joined"
              [] st = "done"   -> "served"
              [] st = "error"  -> "broken"

(* A client is joined exactly while its session streams. *)
LEMMA Roles ==
  /\ clientState = [c \in Clients |-> Role(sess[c].st)]
  /\ clientState' = [c \in Clients |-> Role(sess'[c].st)]
  /\ Role("none") = "away" /\ Role("stream") = "joined" /\ Role("done") = "served" /\ Role("error") = "broken"
  BY DEF clientState, Role

(* Sessions that go on are no event for the abstract specification, ... *)
LEMMA SameClients ==
  ASSUME \A c \in Clients : sess'[c].st = sess[c].st
  PROVE  clientState' = clientState
  BY Roles

(* ... one that begins or ends is. *)
LEMMA OneClient ==
  ASSUME NEW d \in Clients, \A c \in Clients : c # d => sess'[c].st = sess[c].st
  PROVE  clientState' = [clientState EXCEPT ![d] = Role(sess'[d].st)]
  BY Roles

(* A subscribed client has joined. *)
LEMMA Joined ==
  ASSUME NEW c \in Clients, Subscribed(c)
  PROVE  clientState[c] = "joined"
  BY Roles DEF Subscribed

(* Nothing is produced, and nobody has come. *)
LEMMA InitRefines == Init => Abstract!Init
<1> SUFFICES ASSUME Init PROVE Abstract!Init
  OBVIOUS
<1>1. produced = 0
  <2>1. FlattenSeq(<<>>) = <<>>
    BY DEF FlattenSeq
  <2>. QED BY <2>1 DEF Init, produced
<1>2. clientState = [c \in Clients |-> "away"]
  BY Roles DEF Init
<1>. QED BY <1>1, <1>2 DEF Init, Abstract!Init

(* Appending a chunk is Produce, the end of the download End; joining,     *)
(* sending bytes, breaking off and the end of a session are those of the   *)
(* abstract specification, everything else changes nothing of it.          *)
LEMMA StepRefines ==
  ASSUME Inv, [Next]_vars
  PROVE  [Abstract!Next]_(Abstract!vars)
<1> DEFINE Stutter == UNCHANGED <<produced, completed, clientState, got>>
<1>0. sess \in [Clients -> Session] /\ produced \in Nat
  BY Types, Starts DEF Inv
<1>1. ASSUME Stutter PROVE [Abstract!Next]_(Abstract!vars)
  BY <1>1 DEF Abstract!vars
<1>2. CASE Download
  <2>1. /\ UNCHANGED <<sess, got>> /\ completed \in BOOLEAN /\ completed' \in BOOLEAN
        /\ \/ produced' = produced /\ (completed => completed')
           \/ produced' > produced /\ ~completed /\ ~completed'
    BY <1>2, DownloadStep DEF Inv, TypeOK
  <2>2. clientState' = clientState
    BY <2>1, SameClients
  <2>3. CASE produced' > produced /\ ~completed /\ ~completed'
    <3>1. Abstract!Produce
      BY <2>1, <2>2, <2>3 DEF Abstract!Produce
    <3>. QED BY <3>1 DEF Abstract!Next
  <2>4. CASE produced' = produced /\ ~completed /\ completed'
    <3>1. Abstract!End
      BY <2>1, <2>2, <2>4 DEF Abstract!End
    <3>. QED BY <3>1 DEF Abstract!Next
  <2>5. CASE produced' = produced /\ completed' = completed
    BY <2>1, <2>2, <2>5, <1>1
  <2>. QED BY <2>1, <2>3, <2>4, <2>5
<1>3. CASE TakeDirty \/ CopyFails
  <2>1. UNCHANGED <<entryVars, sess, got>>
    BY <1>3 DEF TakeDirty, CopyFails
  <2>. QED BY <2>1, <1>1, SameClients, SameChunks DEF entryVars
<1>4. ASSUME Loop PROVE UNCHANGED <<produced, completed>>
  BY <1>4, LoopKeeps DEF Loop, entryVars
<1>5. ASSUME NEW c \in Clients, Join(c)
      PROVE  [Abstract!Next]_(Abstract!vars)
  <2>1. Loop /\ UNCHANGED got /\ sess[c].st = "none" /\ sess'[c].st = "stream"
        /\ \A x \in Clients : x # c => sess'[x].st = sess[x].st
    BY <1>0, <1>5 DEF Join, Session
  <2>2. clientState[c] = "away"
    BY <2>1, Roles
  <2>3. clientState' = [clientState EXCEPT ![c] = "joined"]
    BY <2>1, OneClient, Roles
  <2>4. Abstract!Join(c)
    BY <1>4, <2>1, <2>2, <2>3 DEF Abstract!Join
  <2>. QED BY <2>4 DEF Abstract!Next
<1>6. ASSUME NEW c \in Clients, LookAt(c) \/ StartWrite(c)
      PROVE  [Abstract!Next]_(Abstract!vars)
  <2>1. Loop /\ UNCHANGED got /\ \A x \in Clients : sess'[x].st = sess[x].st
    BY <1>0, <1>6 DEF LookAt, StartWrite, Park, Session
  <2>. QED BY <2>1, <1>1, <1>4, SameClients
<1>7. CASE WakeUp \/ ReadHeader \/ CopyHeader \/ SendHeader \/ GetChunk \/ CheckEnd
  <2>1. Loop /\ UNCHANGED got /\ \A x \in Clients : sess'[x].st = sess[x].st
    <3>1. Loop /\ UNCHANGED got
      BY <1>7 DEF WakeUp, ReadHeader, CopyHeader, SendHeader, GetChunk, CheckEnd
    <3>2. ASSUME WakeUp \/ CopyHeader \/ SendHeader
          PROVE  \A x \in Clients : sess'[x].st = sess[x].st
      <4>1. CASE WakeUp
        BY <1>0, <4>1 DEF WakeUp, Session
      <4>2. CASE CopyHeader
        BY <1>0, <4>2 DEF CopyHeader, Session
      <4>3. CASE SendHeader
        <5>1. PICK sent : sess' = [sess EXCEPT ![loop.c].headerSent = sent]
          BY <4>3 DEF SendHeader
        <5>. QED BY <1>0, <5>1 DEF Session
      <4>. QED BY <3>2, <4>1, <4>2, <4>3
    <3>3. ASSUME ReadHeader \/ GetChunk \/ CheckEnd
          PROVE  sess' = sess
      BY <3>3 DEF ReadHeader, GetChunk, CheckEnd
    <3>. QED BY <1>7, <3>1, <3>2, <3>3
  <2>. QED BY <2>1, <1>1, <1>4, SameClients
<1>8. CASE SendFails
  <2> DEFINE d == loop.c
  <2>1. Loop /\ UNCHANGED got /\ d \in Clients /\ Subscribed(d)
    BY <1>8 DEF SendFails, Inv, Places, InCallback
  <2>2. sess'[d].st = "error" /\ \A x \in Clients : x # d => sess'[x].st = sess[x].st
    BY <1>0, <1>8, <2>1 DEF SendFails, Close, Session
  <2>3. clientState' = [clientState EXCEPT ![d] = "broken"]
    BY <2>1, <2>2, OneClient, Roles
  <2>4. Abstract!Break(d)
    BY <1>4, <2>1, <2>3, Joined DEF Abstract!Break
  <2>. QED BY <2>1, <2>4 DEF Abstract!Next
<1>9. ASSUME NEW n \in 0 .. MaxBytes, SendBody(n)
      PROVE  [Abstract!Next]_(Abstract!vars)
  <2> DEFINE d == loop.c
             k == sess[d].cursor
  <2>1. Loop
    BY <1>9 DEF SendBody
  <2>2. /\ d \in Clients /\ Subscribed(d) /\ k \in Nat /\ k + n <= produced
        /\ got[d] = Prefix(k) /\ got' = [got EXCEPT ![d] = Prefix(k + n)]
        /\ \A x \in Clients : sess'[x].st = sess[x].st
    BY <1>9, Sent
  <2>3. clientState' = clientState
    BY <2>2, SameClients
  <2>4. CASE n = 0
    <3>1. k + n = k
      BY <2>2, <2>4
    <3>2. got' = got
      BY <2>2, <3>1 DEF Inv, TypeOK
    <3>. QED BY <1>1, <1>4, <2>1, <2>3, <3>2
  <2>5. CASE n # 0
    <3>1. k + 1 \in 1 .. produced /\ k + n \in k + 1 .. produced /\ (k + 1) - 1 = k
      BY <1>0, <2>2, <2>5
    <3>2. got[d] = Abstract!Prefix((k + 1) - 1) /\ got' = [got EXCEPT ![d] = Abstract!Prefix(k + n)]
      BY <2>2, <3>1, SamePrefix
    <3>3. Abstract!Deliver(d, k + 1)
      BY <1>4, <2>1, <2>2, <2>3, <3>1, <3>2, Joined DEF Abstract!Deliver
    <3>. QED BY <2>2, <3>1, <3>3 DEF Abstract!Next
  <2>. QED BY <2>4, <2>5
<1>10. CASE EndWrite
  <2> DEFINE d == loop.c
  <2>1. Loop /\ UNCHANGED got /\ d \in Clients /\ Subscribed(d)
    BY <1>10 DEF EndWrite, Inv, Places, InCallback
  <2>2. CASE loop.all /\ completed
    <3>1. sess'[d].st = "done" /\ \A x \in Clients : x # d => sess'[x].st = sess[x].st
      BY <1>0, <1>10, <2>1, <2>2 DEF EndWrite, Close, Session
    <3>2. clientState' = [clientState EXCEPT ![d] = "served"]
      BY <2>1, <3>1, OneClient, Roles
    <3>3. got[d] = Abstract!Prefix(produced)
      BY <2>1, <2>2, SamePrefix DEF Inv, Places, Received
    <3>4. Abstract!Finish(d)
      BY <1>4, <2>1, <2>2, <3>2, <3>3, Joined DEF Abstract!Finish
    <3>. QED BY <2>1, <3>4 DEF Abstract!Next
  <2>3. CASE ~(loop.all /\ completed)
    <3>1. \A x \in Clients : sess'[x].st = sess[x].st
      BY <1>0, <1>10, <2>1, <2>3 DEF EndWrite, Park, Session
    <3>. QED BY <2>1, <3>1, <1>1, <1>4, SameClients
  <2>. QED BY <2>2, <2>3
<1>11. CASE UNCHANGED vars
  <2>1. produced' = produced /\ clientState' = clientState
    BY <1>11, SameChunks, SameClients DEF vars
  <2>. QED BY <2>1, <1>1, <1>11 DEF vars
<1>. QED BY <1>2, <1>3, <1>5, <1>6, <1>7, <1>8, <1>9, <1>10, <1>11 DEF Next, Callback

(* The proxy broadcasts the download (README.md:4-11): every client gets   *)
(* the produced bytes in order, none twice or left out, and is dismissed   *)
(* only with all of them.                                                  *)
THEOREM Refinement == Spec => ImplementsBroadcast
<1>1. Init => Abstract!Init
  BY InitRefines
<1>2. Inv /\ [Next]_vars => [Abstract!Next]_(Abstract!vars)
  BY StepRefines
<1>. QED BY <1>1, <1>2, Invariance, PTL DEF Spec, ImplementsBroadcast, Abstract!Spec

(* The states of entry, thread, sessions and callbacks stay what they are  *)
(* declared to be, with cursors within the body.                           *)
THEOREM TypeCorrect == Spec => []TypeOK
<1>. QED BY Invariance, PTL DEF Inv

(* No lost wake-up: whoever sleeps while it could go on has news ahead of  *)
(* it, unless a notification was lost (dirty.c:81-119, loop.c:249-293).    *)
THEOREM Wakeups == Spec => []NoLostWakeup
<1>. QED BY Invariance, PTL DEF Inv
=============================================================================
