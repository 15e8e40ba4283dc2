------------------------------ MODULE StoresProofs -----------------------------
(***************************************************************************)
(* Theorems about the two stores.  MemStore: its types and lock            *)
(* discipline, that no secret is left behind, and that it implements       *)
(* SecretMap, for any number of goroutines, keys and buffers.  NhiStore:   *)
(* its types, and that readers are served, for any number of readers,      *)
(* credentials and maps.                                                   *)
(***************************************************************************)
EXTENDS MemStore, NhiStore, TLAPS

--------------------------------------------------------------------------------
(* The memory store                                                           *)


\* What an operation holds at each point.  A goroutine that copies an entry reads
\* a buffer of the store: nobody replaces or drops it while m.mu is held.
OpInv(p) ==
    /\ At(p, "copy") => /\ x[p].key \in Keys /\ entries[x[p].key] = x[p].buf
                        /\ x[p].buf \in Bufs /\ x[p].out = None
    /\ At(p, "store") => x[p].key \in Keys /\ x[p].buf \in Bufs /\ x[p].out = None
    /\ At(p, "use") => x[p].buf = None /\ x[p].out \in Bufs
    /\ At(p, "idle") => x[p].buf = None /\ x[p].out = None

CopyInv == \A p \in Procs : OpInv(p)

Inv == TypeOK /\ CopyInv /\ NoPlaintextBehind

\* A buffer is referred to by an entry or by an operation.
Refers(b) ==
    \/ \E k \in Keys : entries[k] = b
    \/ \E p \in Procs : x[p].buf = b \/ x[p].out = b

--------------------------------------------------------------------------------
LEMMA FreshDef == ASSUME NEW b \in Bufs PROVE b \in Fresh <=> ~Refers(b)
  BY MemStoreAssumption DEF Fresh, Stored, Held, Refers

LEMMA FreshDefNext == ASSUME NEW b \in Bufs PROVE (b \in Fresh)' <=> ~Refers(b)'
  BY MemStoreAssumption DEF Fresh, Stored, Held, Refers

\* What has to be shown of a step: a buffer nobody refers to any more is zeroed.
LEMMA LeftZero ==
    ASSUME \A b \in Bufs : ~Refers(b)' => content'[b] = Zero
    PROVE  NoPlaintextBehind'
  BY FreshDefNext DEF NoPlaintextBehind, Fresh

LEMMA InitInv == Init => Inv
<1> SUFFICES ASSUME Init PROVE Inv
  OBVIOUS
<1>1. TypeOK
  BY DEF Init, TypeOK, Idle, At
<1>2. CopyInv
  BY DEF Init, CopyInv, OpInv, Idle, At
<1>3. NoPlaintextBehind
  BY DEF Init, NoPlaintextBehind, Fresh
<1> QED BY <1>1, <1>2, <1>3 DEF Inv

LEMMA StoreCopyInv ==
    ASSUME Inv, NEW p \in Procs, NEW k \in Keys, NEW v \in Values, StoreCopy(p, k, v)
    PROVE  Inv'
<1>1. PICK b \in Fresh :
        /\ content' = [content EXCEPT ![b] = v]
        /\ x' = [x EXCEPT ![p] = [Idle EXCEPT !.pc = "store", !.key = k, !.buf = b]]
  BY DEF StoreCopy
<1>2. b \in Bufs /\ x[p].pc = "idle" /\ UNCHANGED <<entries, readers, got>>
  BY DEF StoreCopy, Fresh, At
<1>3. TypeOK /\ CopyInv /\ NoPlaintextBehind
  BY DEF Inv
<1>4. /\ x'[p] = [pc |-> "store", key |-> k, buf |-> b, out |-> None]
      /\ \A q \in Procs : q # p => x'[q] = x[q]
  BY <1>1, <1>3 DEF TypeOK, Idle
<1>5. TypeOK'
  <2>1. x' \in [Procs -> [pc : {"idle", "store", "copy", "use"}, key : Keys \cup {None},
                        buf : Bufs \cup {None}, out : Bufs \cup {None}]]
    BY <1>1, <1>2, <1>3 DEF TypeOK, Idle
  <2>2. readers' = {q \in Procs : At(q, "copy")'}
    BY <1>2, <1>3, <1>4 DEF TypeOK, At
  <2>3. content' \in [Bufs -> Values \cup {Zero}]
    BY <1>1, <1>2, <1>3 DEF TypeOK
  <2> QED BY <1>2, <1>3, <2>1, <2>2, <2>3 DEF TypeOK
<1>6. CopyInv'
  BY <1>2, <1>3, <1>4 DEF CopyInv, OpInv, At
<1>7. NoPlaintextBehind'
  <2> SUFFICES ASSUME NEW c \in Bufs, ~Refers(c)' PROVE content'[c] = Zero
    BY LeftZero
  <2>1. c # b
    BY <1>4 DEF Refers
  <2>2. ~Refers(c)
    BY <1>2, <1>3, <1>4, MemStoreAssumption DEF Refers, CopyInv, OpInv, At
  <2>3. content[c] = Zero
    BY <2>2, <1>3, FreshDef DEF NoPlaintextBehind
  <2> QED BY <1>1, <1>2, <1>3, <2>1, <2>3 DEF TypeOK
<1> QED BY <1>5, <1>6, <1>7 DEF Inv

\* Under the exclusive lock nobody copies, so replaced and dropped buffers are
\* not in use; they are zeroed, and keep their type.
LEMMA ZeroedType ==
    ASSUME TypeOK, NEW B
    PROVE  /\ Zeroed(B) \in [Bufs -> Values \cup {Zero}]
           /\ \A b \in Bufs : Zeroed(B)[b] = IF b \in B THEN Zero ELSE content[b]
  BY DEF TypeOK, Zeroed

LEMMA StoreSwapInv ==
    ASSUME Inv, NEW p \in Procs, StoreSwap(p)
    PROVE  Inv'
<1> DEFINE k == x[p].key
<1>1. /\ x[p].pc = "store" /\ readers = {}
      /\ content' = Zeroed({entries[k]})
      /\ entries' = [entries EXCEPT ![k] = x[p].buf]
      /\ x' = [x EXCEPT ![p] = Idle]
      /\ UNCHANGED <<readers, got>>
  BY DEF StoreSwap, At, Unread
<1>2. TypeOK /\ CopyInv /\ NoPlaintextBehind
  BY DEF Inv
<1>3. k \in Keys /\ x[p].buf \in Bufs /\ x[p].out = None
  BY <1>1, <1>2 DEF CopyInv, OpInv, At
<1>4. x'[p] = Idle /\ \A q \in Procs : q # p => x'[q] = x[q]
  BY <1>1, <1>2 DEF TypeOK
<1>5. \A q \in Procs : x'[q].pc # "copy"
  BY <1>1, <1>2, <1>4 DEF TypeOK, At, Idle
<1>6. TypeOK'
  <2>1. x' \in [Procs -> [pc : {"idle", "store", "copy", "use"}, key : Keys \cup {None},
                        buf : Bufs \cup {None}, out : Bufs \cup {None}]]
    BY <1>1, <1>2 DEF TypeOK, Idle
  <2>2. readers' = {q \in Procs : At(q, "copy")'}
    BY <1>1, <1>5 DEF At
  <2>3. content' \in [Bufs -> Values \cup {Zero}]
    BY <1>1, <1>2, ZeroedType
  <2>4. entries' \in [Keys -> Bufs \cup {None}]
    BY <1>1, <1>2, <1>3 DEF TypeOK
  <2> QED BY <1>1, <1>2, <2>1, <2>2, <2>3, <2>4 DEF TypeOK
<1>7. CopyInv'
  BY <1>2, <1>4, <1>5 DEF CopyInv, OpInv, At, Idle
<1>8. NoPlaintextBehind'
  <2> SUFFICES ASSUME NEW c \in Bufs, ~Refers(c)' PROVE content'[c] = Zero
    BY LeftZero
  <2>1. entries'[k] = x[p].buf /\ \A j \in Keys : j # k => entries'[j] = entries[j]
    BY <1>1, <1>2, <1>3 DEF TypeOK
  <2>2. CASE c = entries[k]
    BY <1>1, <1>2, <2>2, ZeroedType
  <2>3. CASE c # entries[k]
    <3>1. ~Refers(c)
      BY <2>1, <2>3, <1>3, <1>4, MemStoreAssumption DEF Refers
    <3>2. content[c] = Zero
      BY <3>1, <1>2, FreshDef DEF NoPlaintextBehind
    <3> QED BY <1>1, <1>2, <3>2, ZeroedType
  <2> QED BY <2>2, <2>3
<1> QED BY <1>6, <1>7, <1>8 DEF Inv

LEMMA DropInv ==
    ASSUME Inv, NEW K \in SUBSET Keys, readers = {}, Drop(K), UNCHANGED <<readers, got, x>>
    PROVE  Inv'
<1>1. /\ content' = Zeroed({entries[k] : k \in K})
      /\ entries' = [k \in Keys |-> IF k \in K THEN None ELSE entries[k]]
  BY DEF Drop
<1>2. TypeOK /\ CopyInv /\ NoPlaintextBehind
  BY DEF Inv
<1>3. \A q \in Procs : x[q].pc # "copy"
  BY <1>2 DEF TypeOK, At
<1>4. TypeOK'
  <2>1. content' \in [Bufs -> Values \cup {Zero}]
    BY <1>1, <1>2, ZeroedType
  <2>2. entries' \in [Keys -> Bufs \cup {None}]
    BY <1>1, <1>2 DEF TypeOK
  <2> QED BY <1>2, <2>1, <2>2 DEF TypeOK, At
<1>5. CopyInv'
  BY <1>2, <1>3 DEF CopyInv, OpInv, At
<1>6. NoPlaintextBehind'
  <2> SUFFICES ASSUME NEW c \in Bufs, ~Refers(c)' PROVE content'[c] = Zero
    BY LeftZero
  <2>1. CASE c \in {entries[k] : k \in K}
    BY <1>1, <1>2, <2>1, ZeroedType
  <2>2. CASE c \notin {entries[k] : k \in K}
    <3>1. ~Refers(c)
      BY <1>1, <2>2 DEF Refers
    <3>2. content[c] = Zero
      BY <3>1, <1>2, FreshDef DEF NoPlaintextBehind
    <3> QED BY <1>1, <1>2, <2>2, <3>2, ZeroedType
  <2> QED BY <2>1, <2>2
<1> QED BY <1>4, <1>5, <1>6 DEF Inv

LEMMA LookupInv ==
    ASSUME Inv, NEW p \in Procs, NEW k \in Keys, Lookup(p, k)
    PROVE  Inv'
<1>1. /\ x[p].pc = "idle" /\ entries[k] # None /\ readers' = readers \cup {p}
      /\ x' = [x EXCEPT ![p] = [Idle EXCEPT !.pc = "copy", !.key = k, !.buf = entries[k]]]
      /\ UNCHANGED <<entries, content, got>>
  BY DEF Lookup, At
<1>2. TypeOK /\ CopyInv /\ NoPlaintextBehind
  BY DEF Inv
<1>3. entries[k] \in Bufs
  BY <1>1, <1>2 DEF TypeOK
<1>4. /\ x'[p] = [pc |-> "copy", key |-> k, buf |-> entries[k], out |-> None]
      /\ \A q \in Procs : q # p => x'[q] = x[q]
  BY <1>1, <1>2 DEF TypeOK, Idle
<1>5. TypeOK'
  <2>1. x' \in [Procs -> [pc : {"idle", "store", "copy", "use"}, key : Keys \cup {None},
                        buf : Bufs \cup {None}, out : Bufs \cup {None}]]
    BY <1>1, <1>2, <1>3 DEF TypeOK, Idle
  <2>2. readers' = {q \in Procs : At(q, "copy")'}
    BY <1>1, <1>2, <1>4 DEF TypeOK, At
  <2> QED BY <1>1, <1>2, <2>1, <2>2 DEF TypeOK
<1>6. CopyInv'
  <2> SUFFICES ASSUME NEW q \in Procs PROVE OpInv(q)'
    BY DEF CopyInv
  <2>1. CASE q = p
    <3>1. /\ x'[q].pc = "copy" /\ x'[q].key = k
          /\ x'[q].buf = entries[k] /\ x'[q].out = None
      BY <2>1, <1>4
    <3>2. entries' = entries
      BY <1>1
    <3> QED BY <3>1, <3>2, <1>3 DEF OpInv, At
  <2>2. CASE q # p
    BY <2>2, <1>1, <1>2, <1>4 DEF CopyInv, OpInv, At
  <2> QED BY <2>1, <2>2
<1>7. NoPlaintextBehind'
  <2> SUFFICES ASSUME NEW c \in Bufs, ~Refers(c)' PROVE content'[c] = Zero
    BY LeftZero
  <2>1. ~Refers(c)
    BY <1>1, <1>2, <1>4, MemStoreAssumption DEF Refers, CopyInv, OpInv, At
  <2> QED BY <2>1, <1>1, <1>2, FreshDef DEF NoPlaintextBehind
<1> QED BY <1>5, <1>6, <1>7 DEF Inv

LEMMA NotFoundInv ==
    ASSUME Inv, NEW p \in Procs, NEW k \in Keys, NotFound(p, k)
    PROVE  Inv'
<1>1. got' = [got EXCEPT ![p] = <<k, None>>] /\ UNCHANGED <<entries, content, readers, x>>
  BY DEF NotFound
<1>2. TypeOK'
  BY <1>1 DEF Inv, TypeOK, At
<1>3. CopyInv' /\ NoPlaintextBehind'
  BY <1>1 DEF Inv, CopyInv, OpInv, NoPlaintextBehind, Fresh, Stored, Held, At
<1> QED BY <1>2, <1>3 DEF Inv

LEMMA CopyStepInv ==
    ASSUME Inv, NEW p \in Procs, Copy(p)
    PROVE  Inv'
<1>1. PICK b \in Fresh :
        /\ content' = [content EXCEPT ![b] = content[x[p].buf]]
        /\ x' = [x EXCEPT ![p] = [Idle EXCEPT !.pc = "use", !.out = b]]
  BY DEF Copy
<1>2. /\ b \in Bufs /\ x[p].pc = "copy" /\ readers' = readers \ {p} /\ entries' = entries
      /\ got' = [got EXCEPT ![p] = <<x[p].key, content[x[p].buf]>>]
  BY DEF Copy, Fresh, At
<1>3. TypeOK /\ CopyInv /\ NoPlaintextBehind
  BY DEF Inv
<1>4. /\ x[p].key \in Keys /\ entries[x[p].key] = x[p].buf
      /\ x[p].buf \in Bufs /\ x[p].out = None
  BY <1>2, <1>3 DEF CopyInv, OpInv, At
<1>5. /\ x'[p] = [pc |-> "use", key |-> None, buf |-> None, out |-> b]
      /\ \A q \in Procs : q # p => x'[q] = x[q]
  BY <1>1, <1>3 DEF TypeOK, Idle
<1>6. TypeOK'
  <2>1. x' \in [Procs -> [pc : {"idle", "store", "copy", "use"}, key : Keys \cup {None},
                        buf : Bufs \cup {None}, out : Bufs \cup {None}]]
    BY <1>1, <1>2, <1>3 DEF TypeOK, Idle
  <2>2. readers' = {q \in Procs : At(q, "copy")'}
    BY <1>2, <1>3, <1>5 DEF TypeOK, At
  <2>3. content[x[p].buf] \in Values \cup {Zero}
    BY <1>3, <1>4 DEF TypeOK
  <2>4. content' \in [Bufs -> Values \cup {Zero}]
    BY <1>1, <1>2, <1>3, <2>3 DEF TypeOK
  <2>5. got' \in [Procs -> {None} \cup (Keys \X (Values \cup {None, Zero}))]
    BY <1>2, <1>3, <1>4, <2>3 DEF TypeOK
  <2> QED BY <1>2, <1>3, <2>1, <2>2, <2>4, <2>5 DEF TypeOK
<1>7. CopyInv'
  BY <1>2, <1>3, <1>5 DEF CopyInv, OpInv, At
<1>8. NoPlaintextBehind'
  <2> SUFFICES ASSUME NEW c \in Bufs, ~Refers(c)' PROVE content'[c] = Zero
    BY LeftZero
  <2>1. c # b
    BY <1>5 DEF Refers
  <2>2. ~Refers(c)
    BY <1>2, <1>4, <1>5, MemStoreAssumption DEF Refers
  <2>3. content[c] = Zero
    BY <2>2, <1>3, FreshDef DEF NoPlaintextBehind
  <2> QED BY <1>1, <1>2, <1>3, <2>1, <2>3 DEF TypeOK
<1> QED BY <1>6, <1>7, <1>8 DEF Inv

LEMMA UseInv ==
    ASSUME Inv, NEW p \in Procs, Use(p)
    PROVE  Inv'
<1>1. /\ x[p].pc = "use" /\ content' = Zeroed({x[p].out}) /\ x' = [x EXCEPT ![p] = Idle]
      /\ UNCHANGED <<entries, readers, got>>
  BY DEF Use, At
<1>2. TypeOK /\ CopyInv /\ NoPlaintextBehind
  BY DEF Inv
<1>3. x[p].buf = None
  BY <1>1, <1>2 DEF CopyInv, OpInv, At
<1>4. x'[p] = Idle /\ \A q \in Procs : q # p => x'[q] = x[q]
  BY <1>1, <1>2 DEF TypeOK
<1>5. TypeOK'
  <2>1. x' \in [Procs -> [pc : {"idle", "store", "copy", "use"}, key : Keys \cup {None},
                        buf : Bufs \cup {None}, out : Bufs \cup {None}]]
    BY <1>1, <1>2 DEF TypeOK, Idle
  <2>2. readers' = {q \in Procs : At(q, "copy")'}
    BY <1>1, <1>2, <1>4 DEF TypeOK, At, Idle
  <2>3. content' \in [Bufs -> Values \cup {Zero}]
    BY <1>1, <1>2, ZeroedType
  <2> QED BY <1>1, <1>2, <2>1, <2>2, <2>3 DEF TypeOK
<1>6. CopyInv'
  BY <1>1, <1>2, <1>4 DEF CopyInv, OpInv, At, Idle
<1>7. NoPlaintextBehind'
  <2> SUFFICES ASSUME NEW c \in Bufs, ~Refers(c)' PROVE content'[c] = Zero
    BY LeftZero
  <2>1. CASE c = x[p].out
    BY <1>1, <1>2, <2>1, ZeroedType
  <2>2. CASE c # x[p].out
    <3>1. ~Refers(c)
      BY <1>1, <1>3, <1>4, <2>2, MemStoreAssumption DEF Refers
    <3>2. content[c] = Zero
      BY <3>1, <1>2, FreshDef DEF NoPlaintextBehind
    <3> QED BY <1>1, <1>2, <3>2, ZeroedType
  <2> QED BY <2>1, <2>2
<1> QED BY <1>5, <1>6, <1>7 DEF Inv

LEMMA NextInv == Inv /\ [Next]_vars => Inv'
<1> SUFFICES ASSUME Inv, [Next]_vars PROVE Inv'
  OBVIOUS
<1>1. ASSUME NEW p \in Procs, NEW k \in Keys, Zeroize(p, k) PROVE Inv'
  BY <1>1, DropInv DEF Zeroize, Unread
<1>2. ASSUME NEW p \in Procs, ZeroizeAll(p) PROVE Inv'
  BY <1>2, DropInv DEF ZeroizeAll, Unread
<1>3. ASSUME UNCHANGED vars PROVE Inv'
  BY <1>3 DEF vars, Inv, TypeOK, CopyInv, OpInv, NoPlaintextBehind, Fresh, Stored, Held, At
<1> QED
  BY <1>1, <1>2, <1>3, StoreCopyInv, StoreSwapInv, LookupInv, NotFoundInv, CopyStepInv, UseInv
     DEF Next

LEMMA SpecInv == Spec => []Inv
  BY InitInv, NextInv, PTL DEF Spec

--------------------------------------------------------------------------------
(* The theorems.                                                              *)

\* The store keeps its types, and m.mu is held for reading exactly while an
\* entry is copied, however many goroutines use it.
THEOREM TypeCorrect == Spec => []TypeOK
<1>1. Inv => TypeOK
  BY DEF Inv
<1> QED BY <1>1, SpecInv, PTL

\* No sequence of Store, Retrieve, Zeroize and ZeroizeAll leaves a secret in a
\* buffer that nothing refers to.
THEOREM NoSecretLeft == Spec => []NoPlaintextBehind
<1>1. Inv => NoPlaintextBehind
  BY DEF Inv
<1> QED BY <1>1, SpecInv, PTL

--------------------------------------------------------------------------------
(* The store is a map.                                                        *)

\* The buffer only operation p refers to: the copy it is about to store, or the
\* one it is using.
Own(p) == IF At(p, "store") THEN x[p].buf ELSE x[p].out

\* Buffers are not shared: not by two keys, not by the store and an operation,
\* not by two operations; and what is stored, or about to be, is a secret and
\* not zeros.
OwnInv ==
    /\ \A j, k \in Keys : entries[j] # None /\ entries[j] = entries[k] => j = k
    /\ \A k \in Keys : entries[k] # None => content[entries[k]] \in Values
    /\ \A p \in Procs : Own(p) # None =>
         /\ \A k \in Keys : entries[k] # Own(p)
         /\ \A q \in Procs : Own(q) = Own(p) => q = p
    /\ \A p \in Procs : At(p, "store") => content[x[p].buf] \in Values

\* The map that the store presents, and a step of it.
SecretOf(k) == IF entries[k] = None THEN None ELSE content[entries[k]]
MapStep == [Map!Next]_<<[k \in Keys |-> SecretOf(k)], got>>

\* A step that changes no secret and reports none is a stutter of the map.
LEMMA MapStutters ==
    ASSUME UNCHANGED got, \A k \in Keys : SecretOf(k)' = SecretOf(k)
    PROVE  MapStep
  BY DEF MapStep

\* A buffer that is fresh is nobody's.
LEMMA FreshIsFree ==
    ASSUME NEW b \in Fresh
    PROVE  /\ b \in Bufs /\ \A k \in Keys : entries[k] # b
           /\ \A p \in Procs : x[p].buf # b /\ x[p].out # b /\ Own(p) # b
  BY FreshDef DEF Refers, Fresh, Own

LEMMA InitOwn == Init => OwnInv
  BY DEF Init, OwnInv, Own, At, Idle

LEMMA StoreCopyMap ==
    ASSUME Inv, OwnInv, NEW p \in Procs, NEW k \in Keys, NEW v \in Values, StoreCopy(p, k, v)
    PROVE  OwnInv' /\ MapStep
<1>1. PICK b \in Fresh :
        /\ content' = [content EXCEPT ![b] = v]
        /\ x' = [x EXCEPT ![p] = [Idle EXCEPT !.pc = "store", !.key = k, !.buf = b]]
  BY DEF StoreCopy
<1>2. UNCHANGED <<entries, got>>
  BY DEF StoreCopy
<1>3. /\ b \in Bufs /\ \A j \in Keys : entries[j] # b
      /\ \A q \in Procs : x[q].buf # b /\ x[q].out # b /\ Own(q) # b
  BY FreshIsFree
<1>4. /\ x'[p] = [pc |-> "store", key |-> k, buf |-> b, out |-> None]
      /\ \A q \in Procs : q # p => x'[q] = x[q]
  BY <1>1 DEF Inv, TypeOK, Idle
<1>5. content'[b] = v /\ \A c \in Bufs : c # b => content'[c] = content[c]
  BY <1>1, <1>3 DEF Inv, TypeOK
<1>6. Own(p)' = b /\ \A q \in Procs : q # p => Own(q)' = Own(q)
  BY <1>4 DEF Own, At
<1>7. \A j \in Keys : entries[j] \in Bufs \cup {None}
  BY DEF Inv, TypeOK
<1>8. OwnInv'
  <2>1. \A j \in Keys : entries'[j] # None => content'[entries'[j]] \in Values
    BY <1>2, <1>3, <1>5, <1>7 DEF OwnInv
  <2>2. \A q \in Procs : At(q, "store")' => content'[x'[q].buf] \in Values
    <3>1. \A q \in Procs : At(q, "store") => x[q].buf \in Bufs
      BY DEF Inv, CopyInv, OpInv
    <3> QED BY <1>3, <1>4, <1>5, <3>1 DEF OwnInv, At
  <2>3. \A q \in Procs : Own(q)' # None =>
          /\ \A j \in Keys : entries'[j] # Own(q)'
          /\ \A s \in Procs : Own(s)' = Own(q)' => s = q
    BY <1>2, <1>3, <1>6 DEF OwnInv
  <2> QED BY <1>2, <2>1, <2>2, <2>3 DEF OwnInv
<1>9. \A j \in Keys : SecretOf(j)' = SecretOf(j)
  BY <1>2, <1>3, <1>5, <1>7 DEF SecretOf
<1> QED BY <1>2, <1>8, <1>9, MapStutters

LEMMA StoreSwapMap ==
    ASSUME Inv, OwnInv, NEW p \in Procs, StoreSwap(p)
    PROVE  OwnInv' /\ MapStep
<1> DEFINE k == x[p].key
           b == x[p].buf
<1>1. /\ x[p].pc = "store" /\ content' = Zeroed({entries[k]})
      /\ entries' = [entries EXCEPT ![k] = b]
      /\ x' = [x EXCEPT ![p] = Idle] /\ UNCHANGED got
  BY DEF StoreSwap, At
<1>2. k \in Keys /\ b \in Bufs /\ b # None /\ content[b] \in Values /\ Own(p) = b
  BY <1>1, MemStoreAssumption DEF Inv, CopyInv, OpInv, At, OwnInv, Own
<1>3. x'[p] = Idle /\ \A q \in Procs : q # p => x'[q] = x[q]
  BY <1>1 DEF Inv, TypeOK
<1>4. entries'[k] = b /\ \A j \in Keys : j # k => entries'[j] = entries[j]
  BY <1>1, <1>2 DEF Inv, TypeOK
<1>5. \A c \in Bufs : content'[c] = IF c = entries[k] THEN Zero ELSE content[c]
  BY <1>1, ZeroedType DEF Inv
<1>6. /\ \A j \in Keys : entries[j] \in Bufs \cup {None} /\ entries[j] # b
      /\ \A q \in Procs : At(q, "store") => x[q].buf \in Bufs
  BY <1>2 DEF Inv, TypeOK, CopyInv, OpInv, OwnInv
<1>7. Own(p)' = None /\ \A q \in Procs : q # p => Own(q)' = Own(q)
  BY <1>3 DEF Own, At, Idle
<1>8. content'[b] = content[b]
  BY <1>2, <1>5, <1>6
<1> HIDE DEF b, k
<1>9. OwnInv'
  <2>1. \A i, j \in Keys : entries'[i] # None /\ entries'[i] = entries'[j] => i = j
    BY <1>4, <1>6 DEF OwnInv
  <2>2. \A j \in Keys : entries'[j] # None => content'[entries'[j]] \in Values
    BY <1>2, <1>4, <1>5, <1>6, <1>8 DEF OwnInv
  <2>3. \A q \in Procs : Own(q)' # None =>
          /\ \A j \in Keys : entries'[j] # Own(q)'
          /\ \A s \in Procs : Own(s)' = Own(q)' => s = q
    BY <1>2, <1>4, <1>7 DEF OwnInv
  <2>4. \A q \in Procs : At(q, "store")' => content'[x'[q].buf] \in Values
    <3> SUFFICES ASSUME NEW q \in Procs, At(q, "store")' PROVE content'[x'[q].buf] \in Values
      OBVIOUS
    <3>1. q # p /\ x'[q] = x[q] /\ At(q, "store")
      BY <1>3 DEF At, Idle
    <3>2. Own(q) = x[q].buf /\ x[q].buf \in Bufs /\ x[q].buf # None
      BY <1>6, <3>1, MemStoreAssumption DEF Own
    <3>3. x[q].buf # entries[k]
      BY <1>2, <3>2 DEF OwnInv
    <3> QED BY <1>5, <3>1, <3>2, <3>3 DEF OwnInv
  <2> QED BY <2>1, <2>2, <2>3, <2>4 DEF OwnInv
<1>10. \A j \in Keys : SecretOf(j)' = IF j = k THEN content[b] ELSE SecretOf(j)
  BY <1>2, <1>4, <1>5, <1>6, <1>8 DEF SecretOf, OwnInv
<1>11. PICK j \in Keys : j = k
  BY <1>2
<1>12. PICK v \in Values : v = content[b]
  BY <1>2
<1>13. Map!Put(j, v)
  BY <1>1, <1>10, <1>11, <1>12 DEF Map!Put, SecretOf
<1>14. Map!Next
  BY <1>13 DEF Map!Next
<1> QED BY <1>9, <1>14 DEF MapStep

LEMMA DropMap ==
    ASSUME Inv, OwnInv, NEW K \in SUBSET Keys, Drop(K), UNCHANGED <<got, x>>
    PROVE  OwnInv' /\ MapStep
<1> DEFINE B == {entries[k] : k \in K}
<1>1. content' = Zeroed(B) /\ \A k \in Keys : entries'[k] = IF k \in K THEN None ELSE entries[k]
  BY DEF Drop
<1>2. \A c \in Bufs : content'[c] = IF c \in B THEN Zero ELSE content[c]
  BY <1>1, ZeroedType DEF Inv
<1>3. \A k \in Keys : k \notin K /\ entries[k] # None => entries[k] \in Bufs /\ entries[k] \notin B
  BY DEF Inv, TypeOK, OwnInv
<1>4. \A q \in Procs : Own(q) # None => Own(q) \notin B
  BY DEF OwnInv
<1>5. \A q \in Procs : Own(q)' = Own(q) /\ (At(q, "store")' <=> At(q, "store"))
  BY DEF Own, At
<1> HIDE DEF B
<1>6. OwnInv'
  <2>1. \A i, j \in Keys : entries'[i] # None /\ entries'[i] = entries'[j] => i = j
    BY <1>1 DEF OwnInv
  <2>2. \A j \in Keys : entries'[j] # None => content'[entries'[j]] \in Values
    BY <1>1, <1>2, <1>3 DEF OwnInv
  <2>3. \A q \in Procs : Own(q)' # None =>
          /\ \A j \in Keys : entries'[j] # Own(q)'
          /\ \A s \in Procs : Own(s)' = Own(q)' => s = q
    BY <1>1, <1>5 DEF OwnInv
  <2>4. \A q \in Procs : At(q, "store")' => content'[x'[q].buf] \in Values
    <3> SUFFICES ASSUME NEW q \in Procs, At(q, "store") PROVE content'[x[q].buf] \in Values
      BY <1>5
    <3>1. Own(q) = x[q].buf /\ x[q].buf \in Bufs /\ x[q].buf # None
      BY MemStoreAssumption DEF Own, Inv, CopyInv, OpInv
    <3> QED BY <1>2, <1>4, <3>1 DEF OwnInv
  <2> QED BY <2>1, <2>2, <2>3, <2>4 DEF OwnInv
<1>7. \A k \in Keys : SecretOf(k)' = IF k \in K THEN None ELSE SecretOf(k)
  BY <1>1, <1>2, <1>3 DEF SecretOf
<1>8. Map!Drop(K)
  BY <1>7 DEF Map!Drop, SecretOf
<1>9. Map!Next
  BY <1>8 DEF Map!Next
<1> QED BY <1>6, <1>9 DEF MapStep

LEMMA LookupMap ==
    ASSUME Inv, OwnInv, NEW p \in Procs, NEW k \in Keys, Lookup(p, k)
    PROVE  OwnInv' /\ MapStep
<1>1. /\ x' = [x EXCEPT ![p] = [Idle EXCEPT !.pc = "copy", !.key = k, !.buf = entries[k]]]
      /\ UNCHANGED <<entries, content, got>>
  BY DEF Lookup
<1>2. /\ x'[p] = [pc |-> "copy", key |-> k, buf |-> entries[k], out |-> None]
      /\ \A q \in Procs : q # p => x'[q] = x[q]
  BY <1>1 DEF Inv, TypeOK, Idle
<1>3. Own(p)' = None /\ ~At(p, "store")'
  BY <1>2 DEF Own, At
<1>4. \A q \in Procs : q # p => Own(q)' = Own(q) /\ (At(q, "store")' <=> At(q, "store"))
  BY <1>2 DEF Own, At
<1>5. OwnInv'
  BY <1>1, <1>2, <1>3, <1>4 DEF OwnInv
<1> QED BY <1>1, <1>5, MapStutters DEF SecretOf

LEMMA NotFoundMap ==
    ASSUME OwnInv, NEW p \in Procs, NEW k \in Keys, NotFound(p, k)
    PROVE  OwnInv' /\ MapStep
<1>1. /\ entries[k] = None /\ got' = [got EXCEPT ![p] = <<k, None>>]
      /\ UNCHANGED <<entries, content, x>>
  BY DEF NotFound
<1>2. OwnInv'
  BY <1>1 DEF OwnInv, Own, At
<1>3. Map!Get(p, k)
  BY <1>1 DEF Map!Get
<1>4. Map!Next
  BY <1>3 DEF Map!Next
<1> QED BY <1>2, <1>4 DEF MapStep

LEMMA CopyMap ==
    ASSUME Inv, OwnInv, NEW p \in Procs, Copy(p)
    PROVE  OwnInv' /\ MapStep
<1>1. PICK b \in Fresh :
        /\ content' = [content EXCEPT ![b] = content[x[p].buf]]
        /\ x' = [x EXCEPT ![p] = [Idle EXCEPT !.pc = "use", !.out = b]]
  BY DEF Copy
<1>2. /\ x[p].pc = "copy" /\ entries' = entries
      /\ got' = [got EXCEPT ![p] = <<x[p].key, content[x[p].buf]>>]
  BY DEF Copy, At
<1>3. /\ b \in Bufs /\ \A j \in Keys : entries[j] # b
      /\ \A q \in Procs : x[q].buf # b /\ x[q].out # b /\ Own(q) # b
  BY FreshIsFree
<1>4. /\ x'[p] = [pc |-> "use", key |-> None, buf |-> None, out |-> b]
      /\ \A q \in Procs : q # p => x'[q] = x[q]
  BY <1>1 DEF Inv, TypeOK, Idle
<1>5. \A c \in Bufs : c # b => content'[c] = content[c]
  BY <1>1, <1>3 DEF Inv, TypeOK
<1>6. Own(p)' = b /\ ~At(p, "store")'
  BY <1>4 DEF Own, At
<1>7. \A q \in Procs : q # p => Own(q)' = Own(q) /\ (At(q, "store")' <=> At(q, "store"))
  BY <1>4 DEF Own, At
<1>8. \A j \in Keys : entries[j] \in Bufs \cup {None}
  BY DEF Inv, TypeOK
<1>9. OwnInv'
  <2>1. \A j \in Keys : entries'[j] # None => content'[entries'[j]] \in Values
    BY <1>2, <1>3, <1>5, <1>8 DEF OwnInv
  <2>2. \A q \in Procs : At(q, "store")' => content'[x'[q].buf] \in Values
    <3>1. \A q \in Procs : At(q, "store") => x[q].buf \in Bufs
      BY DEF Inv, CopyInv, OpInv
    <3> QED BY <1>3, <1>4, <1>5, <1>6, <1>7, <3>1 DEF OwnInv
  <2>3. \A q \in Procs : Own(q)' # None =>
          /\ \A j \in Keys : entries'[j] # Own(q)'
          /\ \A s \in Procs : Own(s)' = Own(q)' => s = q
    BY <1>2, <1>3, <1>6, <1>7 DEF OwnInv
  <2> QED BY <1>2, <2>1, <2>2, <2>3 DEF OwnInv
<1>10. \A j \in Keys : SecretOf(j)' = SecretOf(j)
  BY <1>2, <1>3, <1>5, <1>8 DEF SecretOf
<1>11. x[p].key \in Keys /\ entries[x[p].key] = x[p].buf /\ x[p].buf # None
  BY <1>2, MemStoreAssumption DEF Inv, CopyInv, OpInv, At
<1>12. PICK k \in Keys : k = x[p].key
  BY <1>11
<1>13. Map!Get(p, k)
  BY <1>2, <1>10, <1>11, <1>12 DEF Map!Get, SecretOf
<1>14. Map!Next
  BY <1>13 DEF Map!Next
<1> QED BY <1>9, <1>14 DEF MapStep

LEMMA UseMap ==
    ASSUME Inv, OwnInv, NEW p \in Procs, Use(p)
    PROVE  OwnInv' /\ MapStep
<1> DEFINE b == x[p].out
<1>1. /\ x[p].pc = "use" /\ content' = Zeroed({b})
      /\ x' = [x EXCEPT ![p] = Idle] /\ UNCHANGED <<entries, got>>
  BY DEF Use, At
<1>2. b \in Bufs /\ b # None /\ Own(p) = b
  BY <1>1, MemStoreAssumption DEF Inv, CopyInv, OpInv, At, Own
<1>3. x'[p] = Idle /\ \A q \in Procs : q # p => x'[q] = x[q]
  BY <1>1 DEF Inv, TypeOK
<1>4. \A c \in Bufs : c # b => content'[c] = content[c]
  BY <1>1, ZeroedType DEF Inv
<1>5. \A j \in Keys : entries[j] \in Bufs \cup {None} /\ entries[j] # b
  BY <1>2 DEF Inv, TypeOK, OwnInv
<1>6. \A q \in Procs : q # p => Own(q) # b
  BY <1>2 DEF OwnInv
<1>7. Own(p)' = None /\ ~At(p, "store")'
  BY <1>3 DEF Own, At, Idle
<1>8. \A q \in Procs : q # p => Own(q)' = Own(q) /\ (At(q, "store")' <=> At(q, "store"))
  BY <1>3 DEF Own, At
<1> HIDE DEF b
<1>9. OwnInv'
  <2>1. \A j \in Keys : entries'[j] # None => content'[entries'[j]] \in Values
    BY <1>1, <1>4, <1>5 DEF OwnInv
  <2>2. \A q \in Procs : At(q, "store")' => content'[x'[q].buf] \in Values
    <3>1. \A q \in Procs : At(q, "store") => x[q].buf \in Bufs /\ x[q].buf = Own(q)
      BY DEF Inv, CopyInv, OpInv, Own
    <3> QED BY <1>3, <1>4, <1>6, <1>7, <1>8, <3>1 DEF OwnInv
  <2>3. \A q \in Procs : Own(q)' # None =>
          /\ \A j \in Keys : entries'[j] # Own(q)'
          /\ \A s \in Procs : Own(s)' = Own(q)' => s = q
    BY <1>1, <1>7, <1>8 DEF OwnInv
  <2> QED BY <1>1, <2>1, <2>2, <2>3 DEF OwnInv
<1>10. \A j \in Keys : SecretOf(j)' = SecretOf(j)
  BY <1>1, <1>4, <1>5 DEF SecretOf
<1> QED BY <1>1, <1>9, <1>10, MapStutters

LEMMA NextMap == Inv /\ OwnInv /\ [Next]_vars => OwnInv' /\ MapStep
<1> SUFFICES ASSUME Inv, OwnInv, [Next]_vars PROVE OwnInv' /\ MapStep
  OBVIOUS
<1>1. ASSUME NEW p \in Procs, NEW k \in Keys, Zeroize(p, k) PROVE OwnInv' /\ MapStep
  BY <1>1, DropMap DEF Zeroize
<1>2. ASSUME NEW p \in Procs, ZeroizeAll(p) PROVE OwnInv' /\ MapStep
  BY <1>2, DropMap DEF ZeroizeAll
<1>3. ASSUME UNCHANGED vars PROVE OwnInv' /\ MapStep
  <2>1. OwnInv'
    BY <1>3 DEF vars, OwnInv, Own, At
  <2> QED BY <1>3, <2>1, MapStutters DEF vars, SecretOf
<1> QED
  BY <1>1, <1>2, <1>3, StoreCopyMap, StoreSwapMap, LookupMap, NotFoundMap, CopyMap, UseMap
     DEF Next

\* Goroutines that store, drop and look up at the same time see one map: every
\* operation takes effect at one instant, and a lookup returns what the map then
\* holds.
THEOREM StoreImplementsSecretMap == Spec => ImplementsSecretMap
<1>1. Init => Map!Init
  BY DEF Init, Map!Init
<1>2. MapStep =>
        [Map!Next]_<<[k \in Keys |-> IF entries[k] = None THEN None ELSE content[entries[k]]], got>>
  BY DEF MapStep, SecretOf
<1> QED BY <1>1, <1>2, InitOwn, NextMap, SpecInv, PTL DEF Spec, ImplementsSecretMap, Map!Spec

--------------------------------------------------------------------------------
(* The store of the NHI provider.  A reader that copies holds the stored map  *)
(* itself, so no writer can run; one that uses its copy has a map no other    *)
(* reader and no writer touches.  Both hold values that were current during   *)
(* the call.                                                                  *)


\* A stored credential has its values.
Kept == cred # NoCred => values[cred] \in Creds

Copying(r) ==
    reads[r].pc = "copy" =>
        cred # NoCred /\ reads[r].map = cred /\ values[cred] \in had[r]

Using(r) ==
    reads[r].pc = "use" =>
        /\ reads[r].map \in Maps \ {cred}
        /\ values[reads[r].map] \in Creds \cap had[r]
        /\ \A q \in Readers \ {r} : reads[q].map # reads[r].map

Answered(r) == reads[r].pc = "idle" => reads[r].got \in {Answer(c) : c \in had[r]}

StoreInv ==
    /\ StoreTypeOK
    /\ Kept
    /\ \A r \in Readers : Copying(r) /\ Using(r) /\ Answered(r)

--------------------------------------------------------------------------------
LEMMA StoreInitInv == StoreInit => StoreInv
<1> SUFFICES ASSUME StoreInit PROVE StoreInv
  OBVIOUS
<1> USE NhiStoreAssumption
<1>0. Quiet.pc = "idle" /\ Quiet.got = NoCred
  BY DEF Quiet
<1>1. \A r \in Readers : reads[r] = Quiet /\ had[r] = {NoCred}
  BY DEF StoreInit
<1>2. \A r \in Readers : reads[r].pc = "idle" /\ reads[r].got = NoCred
  BY <1>0, <1>1
<1>3. StoreTypeOK /\ Kept
  <2>1. sharing = {r \in Readers : reads[r].pc = "copy"}
    BY <1>2 DEF StoreInit
  <2>2. reads \in [Readers -> [pc : {"idle", "copy", "use"}, map : Maps \cup {NoCred},
                               got : Creds \cup {NoCred, Missing}]]
    BY DEF StoreInit, Quiet
  <2> QED BY <2>1, <2>2 DEF StoreInit, StoreTypeOK, Kept
<1>4. ASSUME NEW r \in Readers PROVE Copying(r) /\ Using(r) /\ Answered(r)
  BY <1>1, <1>2 DEF Copying, Using, Answered, Answer
<1> QED BY <1>3, <1>4 DEF StoreInv

\* Set runs while nobody copies, and into a map nobody uses.
LEMMA SetInv == ASSUME StoreInv, NEW c \in Creds, Set(c) PROVE StoreInv'
<1> USE NhiStoreAssumption
<1>1. PICK m \in Free : cred' = m /\ values' = [zeroizeCredential EXCEPT ![m] = c]
  BY DEF Set
<1>2. PICK late \in BOOLEAN : expired' = late /\ Noted(IF late THEN NoCred ELSE c)
  BY DEF Set
<1>3. m \in Maps /\ m # cred /\ \A r \in Readers : reads[r].map # m
  BY DEF Free
<1>4. \A r \in Readers : reads[r].pc # "copy"
  BY DEF Set, StoreInv, StoreTypeOK
<1>5. values' \in [Maps -> Creds \cup {Gone}] /\ values'[m] = c
      /\ \A n \in Maps \ {cred, m} : values'[n] = values[n]
  BY <1>1, <1>3 DEF zeroizeCredential, StoreInv, StoreTypeOK
<1>6. had' \in [Readers -> SUBSET (Creds \cup {NoCred})]
      /\ \A r \in Readers : had[r] \subseteq had'[r] /\ (reads[r].pc = "idle" => had'[r] = had[r])
  BY <1>2 DEF Noted, StoreInv, StoreTypeOK
<1>7. StoreTypeOK'
  BY <1>1, <1>2, <1>3, <1>5, <1>6 DEF Set, StoreInv, StoreTypeOK
<1>8. Kept'
  BY <1>1, <1>5 DEF Kept
<1>9. ASSUME NEW r \in Readers PROVE (Copying(r) /\ Using(r) /\ Answered(r))'
  <2>1. Copying(r)'
    BY <1>4 DEF Set, Copying
  <2>2. Using(r)'
    BY <1>1, <1>3, <1>5, <1>6 DEF Set, StoreInv, Using
  <2>3. Answered(r)'
    BY <1>6 DEF Set, StoreInv, Answered
  <2> QED BY <2>1, <2>2, <2>3
<1> QED BY <1>7, <1>8, <1>9 DEF StoreInv

LEMMA ClearInv == ASSUME StoreInv, Clear PROVE StoreInv'
<1> USE NhiStoreAssumption
<1>1. \A r \in Readers : reads[r].pc # "copy"
  BY DEF Clear, StoreInv, StoreTypeOK
<1>2. values' \in [Maps -> Creds \cup {Gone}] /\ \A n \in Maps \ {cred} : values'[n] = values[n]
  BY DEF Clear, zeroizeCredential, StoreInv, StoreTypeOK
<1>3. had' \in [Readers -> SUBSET (Creds \cup {NoCred})]
      /\ \A r \in Readers : had[r] \subseteq had'[r] /\ (reads[r].pc = "idle" => had'[r] = had[r])
  BY DEF Clear, Noted, StoreInv, StoreTypeOK
<1>4. StoreTypeOK' /\ Kept'
  BY <1>2, <1>3 DEF Clear, StoreInv, StoreTypeOK, Kept
<1>5. ASSUME NEW r \in Readers PROVE (Copying(r) /\ Using(r) /\ Answered(r))'
  BY <1>1, <1>2, <1>3 DEF Clear, StoreInv, Copying, Using, Answered
<1> QED BY <1>4, <1>5 DEF StoreInv

LEMMA ExpiresInv == ASSUME StoreInv, Expires PROVE StoreInv'
<1> USE NhiStoreAssumption
<1>1. had' \in [Readers -> SUBSET (Creds \cup {NoCred})]
      /\ \A r \in Readers : had[r] \subseteq had'[r] /\ (reads[r].pc = "idle" => had'[r] = had[r])
  BY DEF Expires, Noted, StoreInv, StoreTypeOK
<1>2. StoreTypeOK' /\ Kept'
  BY <1>1 DEF Expires, StoreInv, StoreTypeOK, Kept
<1>3. ASSUME NEW r \in Readers PROVE (Copying(r) /\ Using(r) /\ Answered(r))'
  BY <1>1 DEF Expires, StoreInv, Copying, Using, Answered
<1> QED BY <1>2, <1>3 DEF StoreInv

\* A call begins with what is current.
LEMMA GetInv == ASSUME StoreInv, NEW r \in Readers, Get(r) PROVE StoreInv'
<1> USE NhiStoreAssumption
<1>1. cred \in Maps /\ Now = values[cred] /\ Now \in Creds
  BY DEF Get, Now, StoreInv, StoreTypeOK, Kept
<1>2. reads'[r].pc = "copy" /\ reads'[r].map = cred /\ reads'[r].got = NoCred
      /\ had'[r] = {Now}
      /\ \A q \in Readers \ {r} : reads'[q] = reads[q] /\ had'[q] = had[q]
  BY DEF Get, StoreInv, StoreTypeOK, Quiet
<1>3. StoreTypeOK' /\ Kept'
  <2>1. sharing' = {q \in Readers : reads'[q].pc = "copy"}
    BY <1>2 DEF Get, StoreInv, StoreTypeOK
  <2>2. reads' \in [Readers -> [pc : {"idle", "copy", "use"}, map : Maps \cup {NoCred},
                                got : Creds \cup {NoCred, Missing}]]
    BY <1>1 DEF Get, StoreInv, StoreTypeOK, Quiet
  <2>3. had' \in [Readers -> SUBSET (Creds \cup {NoCred})]
    BY <1>1 DEF Get, StoreInv, StoreTypeOK
  <2> QED BY <2>1, <2>2, <2>3 DEF Get, StoreInv, StoreTypeOK, Kept
<1>4. ASSUME NEW q \in Readers PROVE (Copying(q) /\ Using(q) /\ Answered(q))'
  <2>1. CASE q = r
    BY <1>1, <1>2, <2>1 DEF Get, Copying, Using, Answered
  <2>2. CASE q # r
    BY <1>1, <1>2, <2>2 DEF Get, StoreInv, Copying, Using, Answered
  <2> QED BY <2>1, <2>2
<1> QED BY <1>3, <1>4 DEF StoreInv

LEMMA GetNothingInv == ASSUME StoreInv, NEW r \in Readers, GetNothing(r) PROVE StoreInv'
<1> USE NhiStoreAssumption
<1>1. reads'[r] = Quiet /\ had'[r] = {NoCred}
      /\ \A q \in Readers \ {r} : reads'[q] = reads[q] /\ had'[q] = had[q]
  BY DEF GetNothing, StoreInv, StoreTypeOK
<1>2. StoreTypeOK' /\ Kept'
  BY <1>1 DEF GetNothing, StoreInv, StoreTypeOK, Kept, Quiet
<1>3. ASSUME NEW q \in Readers PROVE (Copying(q) /\ Using(q) /\ Answered(q))'
  BY <1>1 DEF GetNothing, StoreInv, Copying, Using, Answered, Quiet, Answer, Found
<1> QED BY <1>2, <1>3 DEF StoreInv

\* The copy goes to a map of its own.
LEMMA copyCredentialInv == ASSUME StoreInv, NEW r \in Readers, copyCredential(r) PROVE StoreInv'
<1> USE NhiStoreAssumption
<1>1. PICK m \in Free :
        /\ values' = [values EXCEPT ![m] = values[reads[r].map]]
        /\ reads' = [reads EXCEPT ![r] = [@ EXCEPT !.pc = "use", !.map = m]]
  BY DEF copyCredential
<1>2. m \in Maps /\ m # cred /\ \A q \in Readers : reads[q].map # m
  BY DEF Free
<1>3. cred \in Maps /\ reads[r].map = cred /\ values[cred] \in Creds \cap had[r]
  BY DEF copyCredential, StoreInv, StoreTypeOK, Kept, Copying
<1>4. values' \in [Maps -> Creds \cup {Gone}] /\ values'[m] = values[cred]
      /\ \A n \in Maps \ {m} : values'[n] = values[n]
  BY <1>1, <1>2, <1>3 DEF StoreInv, StoreTypeOK
<1>5. reads'[r].pc = "use" /\ reads'[r].map = m /\ reads'[r].got = reads[r].got
      /\ \A q \in Readers \ {r} : reads'[q] = reads[q]
  BY <1>1 DEF StoreInv, StoreTypeOK
<1>6. StoreTypeOK' /\ Kept'
  <2>1. reads' \in [Readers -> [pc : {"idle", "copy", "use"}, map : Maps \cup {NoCred},
                                got : Creds \cup {NoCred, Missing}]]
    BY <1>1, <1>2 DEF StoreInv, StoreTypeOK
  <2>2. sharing' = {q \in Readers : reads'[q].pc = "copy"}
    BY <1>5 DEF copyCredential, StoreInv, StoreTypeOK
  <2> QED BY <1>2, <1>3, <1>4, <2>1, <2>2 DEF copyCredential, StoreInv, StoreTypeOK, Kept
<1>7. ASSUME NEW q \in Readers PROVE (Copying(q) /\ Using(q) /\ Answered(q))'
  <2>1. CASE q = r
    BY <1>2, <1>3, <1>4, <1>5, <2>1 DEF copyCredential, StoreInv, Copying, Using, Answered
  <2>2. CASE q # r
    BY <1>2, <1>3, <1>4, <1>5, <2>2 DEF copyCredential, StoreInv, StoreTypeOK, Copying, Using,
       Answered
  <2> QED BY <2>1, <2>2
<1> QED BY <1>6, <1>7 DEF StoreInv

LEMMA GetCredentialsInv == ASSUME StoreInv, NEW r \in Readers, GetCredentials(r) PROVE StoreInv'
<1> USE NhiStoreAssumption
<1> DEFINE c == values[reads[r].map]
<1>1. c \in Creds \cap had[r]
  BY DEF GetCredentials, StoreInv, Using
<1>2. reads'[r].pc = "idle" /\ reads'[r].map = NoCred /\ reads'[r].got = Answer(c)
      /\ \A q \in Readers \ {r} : reads'[q] = reads[q]
  BY <1>1 DEF GetCredentials, StoreInv, StoreTypeOK, Quiet, Answer, Found
<1>3. Answer(c) \in Creds \cup {NoCred, Missing}
  BY <1>1 DEF Answer, Found
<1>4. StoreTypeOK' /\ Kept'
  BY <1>1, <1>2, <1>3 DEF GetCredentials, StoreInv, StoreTypeOK, Kept, Quiet, Answer, Found
<1>5. ASSUME NEW q \in Readers PROVE (Copying(q) /\ Using(q) /\ Answered(q))'
  BY <1>1, <1>2 DEF GetCredentials, StoreInv, Copying, Using, Answered
<1> QED BY <1>4, <1>5 DEF StoreInv

--------------------------------------------------------------------------------
LEMMA StoreNextInv == StoreInv /\ [StoreNext]_storeVars => StoreInv'
<1> SUFFICES ASSUME StoreInv, [StoreNext]_storeVars PROVE StoreInv'
  OBVIOUS
<1>1. ASSUME NEW c \in Creds, Set(c) PROVE StoreInv'
  BY <1>1, SetInv
<1>2. CASE Clear BY <1>2, ClearInv
<1>3. CASE Expires BY <1>3, ExpiresInv
<1>4. ASSUME NEW r \in Readers, Get(r) PROVE StoreInv'
  BY <1>4, GetInv
<1>5. ASSUME NEW r \in Readers, GetNothing(r) PROVE StoreInv'
  BY <1>5, GetNothingInv
<1>6. ASSUME NEW r \in Readers, copyCredential(r) PROVE StoreInv'
  BY <1>6, copyCredentialInv
<1>7. ASSUME NEW r \in Readers, GetCredentials(r) PROVE StoreInv'
  BY <1>7, GetCredentialsInv
<1>8. CASE UNCHANGED storeVars
  BY <1>8 DEF storeVars, StoreInv, StoreTypeOK, Kept, Copying, Using, Answered
<1> QED BY <1>1, <1>2, <1>3, <1>4, <1>5, <1>6, <1>7, <1>8 DEF StoreNext

LEMMA StoreInvHolds == StoreSpec => []StoreInv
  BY StoreInitInv, StoreNextInv, PTL DEF StoreSpec

\* The state of the provider's store keeps its types, and s.mu is shared exactly by
\* the readers that copy.
THEOREM NhiTypeCorrect == StoreSpec => []StoreTypeOK
<1>1. StoreInv => StoreTypeOK
  BY DEF StoreInv
<1> QED BY <1>1, StoreInvHolds, PTL

\* Whatever Set, Clear and the clock do while a credential is copied and used, a
\* reader of the provider's store is answered with one credential that was valid
\* during its call, or with an error there was a reason for.
THEOREM ReadersAreServed == StoreSpec => []ServesCurrent
<1>1. StoreInv => ServesCurrent
  BY DEF StoreInv, Answered, ServesCurrent
<1> QED BY <1>1, StoreInvHolds, PTL

================================================================================
