-------------------------- MODULE ClaimStoreProofs ---------------------------
(***************************************************************************)
(* What the operations of ClaimStore do to the versions of a claim.  The   *)
(* proofs about both controllers rest on these lemmas.                     *)
(***************************************************************************)
EXTENDS ClaimStore, TLAPS

\* The budget of faults is never exceeded.
LEMMA FaultType ==
    ASSUME faults \in 0 .. MaxFaults, NEW kind, Fault(kind)
    PROVE  faults' \in 0 .. MaxFaults
  BY SurroundingsAssumption DEF Fault

-----------------------------------------------------------------------------
(* Versions in the store *)

\* Append adds its element behind the others.
LEMMA AppendFacts ==
    ASSUME NEW S, NEW s \in Seq(S), NEW x \in S
    PROVE  /\ Append(s, x) \in Seq(S)
           /\ Len(Append(s, x)) = Len(s) + 1
           /\ \A i \in 1 .. Len(s) : Append(s, x)[i] = s[i]
           /\ Append(s, x)[Len(s) + 1] = x
  OBVIOUS

\* Tail drops the first element.
LEMMA TailFacts ==
    ASSUME NEW S, NEW s \in Seq(S), s # << >>
    PROVE  /\ Tail(s) \in Seq(S)
           /\ Len(Tail(s)) = Len(s) - 1
           /\ \A i \in 1 .. Len(s) - 1 : Tail(s)[i] = s[i + 1]
  OBVIOUS

\* The server and the cache hold an object for each claim.
LEMMA ServerType ==
    ASSUME StoreTypeOK, NEW c \in Claims
    PROVE  Server(c) \in Objects /\ Cached(c) \in Objects
  <1>1. log[c] \in Seq(Objects) /\ Len(log[c]) \in Nat /\ Len(log[c]) >= 1
    BY StoreAssumption DEF StoreTypeOK
  <1> QED BY <1>1 DEF Server, Cached

\* What a write does: the last version of the claim is the one written, every
\* other version was there before, and the other claims keep their versions.
LEMMA StoreEffect ==
    ASSUME StoreTypeOK, NEW c \in Claims, NEW o \in Objects, Store(c, o)
    PROVE  /\ log' \in [Claims -> Seq(Objects)]
           /\ \A d \in Claims : Len(log'[d]) \in 1 .. (MaxLag + 1)
           /\ log'[c][Len(log'[c])] = o
           /\ \A d \in Claims \ {c} : log'[d] = log[d]
           /\ \A i \in 1 .. Len(log'[c]) :
                  i = Len(log'[c]) \/ (i \in 1 .. Len(log[c]) /\ log'[c][i] = log[c][i])
  <1>1. /\ log[c] \in Seq(Objects) /\ Len(log[c]) \in 1 .. MaxLag
        /\ MaxLag \in Nat
    BY StoreAssumption DEF StoreTypeOK, Store, Room
  <1>2. CASE o = Server(c)
    <2>1. log' = log BY <1>2 DEF Store, StoreTypeOK
    <2> QED BY <1>1, <1>2, <2>1 DEF StoreTypeOK, Server
  <1>3. CASE o # Server(c)
    <2>1. log' = [log EXCEPT ![c] = Append(log[c], o)] BY <1>3 DEF Store
    <2>2. log'[c] = Append(log[c], o) BY <2>1 DEF StoreTypeOK
    <2>3. /\ Append(log[c], o) \in Seq(Objects)
          /\ Len(Append(log[c], o)) = Len(log[c]) + 1
          /\ \A i \in 1 .. Len(log[c]) : Append(log[c], o)[i] = log[c][i]
          /\ Append(log[c], o)[Len(log[c]) + 1] = o
      BY <1>1, AppendFacts
    <2>4. log' \in [Claims -> Seq(Objects)] BY <2>1, <2>3 DEF StoreTypeOK
    <2>5. \A d \in Claims \ {c} : log'[d] = log[d] BY <2>1 DEF StoreTypeOK
    <2>6. \A d \in Claims : Len(log'[d]) \in 1 .. (MaxLag + 1)
      BY <1>1, <2>2, <2>3, <2>5 DEF StoreTypeOK
    <2>7. \A i \in 1 .. Len(log'[c]) :
             i = Len(log'[c]) \/ (i \in 1 .. Len(log[c]) /\ log'[c][i] = log[c][i])
      BY <1>1, <2>2, <2>3
    <2> QED BY <1>1, <2>2, <2>3, <2>4, <2>5, <2>6, <2>7
  <1> QED BY <1>2, <1>3

\* The informer drops the oldest version and leaves the server's alone.
LEMMA ObserveEffect ==
    ASSUME StoreTypeOK, NEW c \in Claims, Observe(c)
    PROVE  /\ log' \in [Claims -> Seq(Objects)]
           /\ \A d \in Claims : Len(log'[d]) \in 1 .. (MaxLag + 1)
           /\ log'[c][Len(log'[c])] = log[c][Len(log[c])]
           /\ \A d \in Claims \ {c} : log'[d] = log[d]
           /\ Len(log'[c]) = Len(log[c]) - 1
           /\ \A i \in 1 .. Len(log'[c]) : log'[c][i] = log[c][i + 1]
  <1>1. /\ log[c] \in Seq(Objects) /\ Len(log[c]) \in 2 .. (MaxLag + 1)
        /\ MaxLag \in Nat
    <2>1. Len(log[c]) # 1 BY DEF Observe, Fresh
    <2>2. log[c] \in Seq(Objects) /\ Len(log[c]) \in 1 .. (MaxLag + 1) /\ MaxLag \in Nat
      BY StoreAssumption DEF StoreTypeOK
    <2>3. \A m \in Nat : \A n \in 1 .. (m + 1) : n # 1 => n \in 2 .. (m + 1)
      OBVIOUS
    <2> QED BY <2>1, <2>2, <2>3
  <1>2. log' = [log EXCEPT ![c] = Tail(log[c])] BY DEF Observe
  <1>3. log'[c] = Tail(log[c]) BY <1>2 DEF StoreTypeOK
  <1>4. /\ Tail(log[c]) \in Seq(Objects)
        /\ Len(Tail(log[c])) = Len(log[c]) - 1
        /\ \A i \in 1 .. Len(log[c]) - 1 : Tail(log[c])[i] = log[c][i + 1]
    BY <1>1, TailFacts
  <1>5. log' \in [Claims -> Seq(Objects)] BY <1>2, <1>4 DEF StoreTypeOK
  <1>6. \A d \in Claims \ {c} : log'[d] = log[d] BY <1>2 DEF StoreTypeOK
  <1>7. \A d \in Claims : Len(log'[d]) \in 1 .. (MaxLag + 1)
    BY <1>1, <1>3, <1>4, <1>6 DEF StoreTypeOK
  <1>8. log'[c][Len(log'[c])] = log[c][Len(log[c])]
    <2>1. Len(log[c]) - 1 \in 1 .. Len(log[c]) - 1 BY <1>1
    <2> QED BY <1>1, <1>3, <1>4, <2>1
  <1> QED BY <1>1, <1>3, <1>4, <1>5, <1>6, <1>7, <1>8

-----------------------------------------------------------------------------
(* Types *)

\* The store stays well typed when a claim is written.
LEMMA StoreType ==
    ASSUME StoreTypeOK, NEW c \in Claims, NEW o \in Objects,
           UNCHANGED log \/ Store(c, o), current' \subseteq Claims
    PROVE  StoreTypeOK'
  BY StoreEffect DEF StoreTypeOK

-----------------------------------------------------------------------------
(* The objects of ClaimLifecycle *)

\* An object that differs from another in one field, or in two, is an update of it as
\* far as the promise goes.
LEMMA PromiseUpdates ==
    ASSUME NEW o, NEW p
    PROVE  /\ p.fin = o.fin /\ p.del = o.del /\ p.pid = o.pid /\ p.ready = o.ready =>
                Promise(p) = [Promise(o) EXCEPT !.phase = p.phase]
           /\ p.phase = o.phase /\ p.del = o.del /\ p.pid = o.pid /\ p.ready = o.ready =>
                Promise(p) = [Promise(o) EXCEPT !.fin = p.fin]
           /\ p.phase = o.phase /\ p.fin = o.fin /\ p.pid = o.pid /\ p.ready = o.ready =>
                Promise(p) = [Promise(o) EXCEPT !.del = p.del]
           /\ p.phase = o.phase /\ p.fin = o.fin /\ p.del = o.del /\ p.ready = o.ready =>
                Promise(p) = [Promise(o) EXCEPT !.pid = p.pid]
           /\ p.phase = o.phase /\ p.fin = o.fin /\ p.del = o.del /\ p.pid = o.pid =>
                Promise(p) = [Promise(o) EXCEPT !.ready = isClaimReady(p)]
           /\ p.del = o.del /\ p.pid = o.pid /\ p.ready = o.ready =>
                Promise(p) = [Promise(o) EXCEPT !.fin = p.fin, !.phase = p.phase]
  <1>1. PICK ph, fi, de, pi, re :
           /\ ph = o.phase /\ fi = o.fin /\ de = o.del /\ pi = o.pid /\ re = isClaimReady(o)
           /\ Promise(o) = [phase |-> ph, fin |-> fi, del |-> de, pid |-> pi, ready |-> re]
    BY Zenon DEF Promise
  <1>2. PICK x, y, z, u, v :
           /\ x = p.phase /\ y = p.fin /\ z = p.del /\ u = p.pid /\ v = isClaimReady(p)
           /\ Promise(p) = [phase |-> x, fin |-> y, del |-> z, pid |-> u, ready |-> v]
    BY Zenon DEF Promise
  <1>3. p.ready = o.ready => isClaimReady(p) = isClaimReady(o) BY DEF isClaimReady
  <1>4. [Promise(o) EXCEPT !.phase = x] =
          [phase |-> x, fin |-> fi, del |-> de, pid |-> pi, ready |-> re]
    BY <1>1
  <1>5. [Promise(o) EXCEPT !.fin = y] =
          [phase |-> ph, fin |-> y, del |-> de, pid |-> pi, ready |-> re]
    BY <1>1
  <1>6. [Promise(o) EXCEPT !.del = z] =
          [phase |-> ph, fin |-> fi, del |-> z, pid |-> pi, ready |-> re]
    BY <1>1
  <1>7. [Promise(o) EXCEPT !.pid = u] =
          [phase |-> ph, fin |-> fi, del |-> de, pid |-> u, ready |-> re]
    BY <1>1
  <1>8. [Promise(o) EXCEPT !.ready = v] =
          [phase |-> ph, fin |-> fi, del |-> de, pid |-> pi, ready |-> v]
    BY <1>1
  <1>9. [Promise(o) EXCEPT !.fin = y, !.phase = x] =
          [phase |-> x, fin |-> y, del |-> de, pid |-> pi, ready |-> re]
    <2>1. [Promise(o) EXCEPT !.fin = y, !.phase = x] =
             [[Promise(o) EXCEPT !.fin = y] EXCEPT !.phase = x]
      OBVIOUS
    <2>2. ASSUME NEW q, q = [phase |-> ph, fin |-> y, del |-> de, pid |-> pi, ready |-> re]
          PROVE  [q EXCEPT !.phase = x] =
                   [phase |-> x, fin |-> y, del |-> de, pid |-> pi, ready |-> re]
      BY <2>2
    <2> QED BY <1>5, <2>1, <2>2, Zenon
  <1> QED BY <1>1, <1>2, <1>3, <1>4, <1>5, <1>6, <1>7, <1>8, <1>9, Zenon

=============================================================================
