------------------------------- MODULE MemStore --------------------------------
(***************************************************************************)
(* The in-memory credential store (src/credential/memstore.go) and the     *)
(* HTTP and SQL adapters that read it.  A buffer holds one secret or       *)
(* zeros.  What runs under m.mu is one step when it is exclusive; a lookup *)
(* and the copy it makes are two, since readers share the lock.  Page      *)
(* locks are not modelled, nor are the strings that the adapters build.    *)
(***************************************************************************)
EXTENDS Naturals

CONSTANTS
    Procs,   \* goroutines that use the store
    Keys,
    Values,
    Bufs,    \* byte slices (collected and allocated again)
    Zero,    \* the content of a zeroed slice
    None

ASSUME MemStoreAssumption ==
    /\ Zero \notin Values \cup {None}
    /\ None \notin Values \cup Keys \cup Bufs

VARIABLES
    entries,  \* m.entries: the buffer under each key
    content,  \* what each buffer holds
    readers,  \* goroutines that hold m.mu for reading
    got,      \* what each goroutine's last lookup returned, with its key
    x         \* the operation of each goroutine

vars == <<entries, content, readers, got, x>>

Idle == [pc |-> "idle", key |-> None, buf |-> None, out |-> None]

Init ==
    /\ entries = [k \in Keys |-> None]
    /\ content = [b \in Bufs |-> Zero]
    /\ readers = {}
    /\ got = [p \in Procs |-> None]
    /\ x = [p \in Procs |-> Idle]

At(p, pc) == x[p].pc = pc
Stored == {entries[k] : k \in Keys} \ {None}
Held(p) == {x[p].buf, x[p].out} \ {None}

\* make([]byte, n) returns memory that nothing refers to.
Fresh == Bufs \ (Stored \cup UNION {Held(p) : p \in Procs})

\* m.mu.Lock succeeds when nobody reads; exclusive sections are single steps.
Unread == readers = {}

Zeroed(B) == [b \in Bufs |-> IF b \in B THEN Zero ELSE content[b]]

--------------------------------------------------------------------------------
(* Store                                                                      *)

\* The value is copied into a new buffer before the lock is taken ...
StoreCopy(p, k, v) ==
    /\ At(p, "idle")
    /\ \E b \in Fresh :
         /\ content' = [content EXCEPT ![b] = v]
         /\ x' = [x EXCEPT ![p] = [Idle EXCEPT !.pc = "store", !.key = k, !.buf = b]]
    /\ UNCHANGED <<entries, readers, got>>

\* ... under which the old buffer is zeroed and replaced.
StoreSwap(p) ==
    /\ At(p, "store") /\ Unread
    /\ content' = Zeroed({entries[x[p].key]})
    /\ entries' = [entries EXCEPT ![x[p].key] = x[p].buf]
    /\ x' = [x EXCEPT ![p] = Idle]
    /\ UNCHANGED <<readers, got>>

--------------------------------------------------------------------------------
(* Zeroize and ZeroizeAll                                                     *)

Drop(K) ==
    /\ content' = Zeroed({entries[k] : k \in K})
    /\ entries' = [k \in Keys |-> IF k \in K THEN None ELSE entries[k]]

Zeroize(p, k) ==
    /\ At(p, "idle") /\ Unread /\ entries[k] # None
    /\ Drop({k})
    /\ UNCHANGED <<readers, got, x>>

ZeroizeAll(p) ==
    /\ At(p, "idle") /\ Unread
    /\ Drop(Keys)
    /\ UNCHANGED <<readers, got, x>>

--------------------------------------------------------------------------------
(* Retrieve, as ZineticTransport.RoundTrip and ZineticConnector.Connect use it*)

\* The entry is found under the read lock ...
Lookup(p, k) ==
    /\ At(p, "idle") /\ entries[k] # None
    /\ readers' = readers \cup {p}
    /\ x' = [x EXCEPT ![p] = [Idle EXCEPT !.pc = "copy", !.key = k, !.buf = entries[k]]]
    /\ UNCHANGED <<entries, content, got>>

\* ... or it is not, and the adapter returns an error.
NotFound(p, k) ==
    /\ At(p, "idle") /\ entries[k] = None
    /\ got' = [got EXCEPT ![p] = <<k, None>>]
    /\ UNCHANGED <<entries, content, readers, x>>

\* Mutant: the entry's own buffer is returned.
CopyAlias(p) ==
    /\ At(p, "copy")
    /\ got' = [got EXCEPT ![p] = <<x[p].key, content[x[p].buf]>>]
    /\ x' = [x EXCEPT ![p] = [Idle EXCEPT !.pc = "use", !.out = x[p].buf]]
    /\ readers' = readers \ {p}
    /\ UNCHANGED <<content, entries>>

\* A copy is made and the lock released.
Copy(p) ==
    /\ At(p, "copy")
    /\ \E b \in Fresh :
         /\ content' = [content EXCEPT ![b] = content[x[p].buf]]
         /\ x' = [x EXCEPT ![p] = [Idle EXCEPT !.pc = "use", !.out = b]]
    /\ got' = [got EXCEPT ![p] = <<x[p].key, content[x[p].buf]>>]
    /\ readers' = readers \ {p}
    /\ UNCHANGED entries

\* Mutant: the adapter does not zero its copy.
UseLeaves(p) ==
    /\ At(p, "use")
    /\ x' = [x EXCEPT ![p] = Idle]
    /\ UNCHANGED <<entries, content, readers, got>>

\* The adapter has built its header or DSN, and zeroes its copy.
Use(p) ==
    /\ At(p, "use")
    /\ content' = Zeroed({x[p].out})
    /\ x' = [x EXCEPT ![p] = Idle]
    /\ UNCHANGED <<entries, readers, got>>

--------------------------------------------------------------------------------
Next ==
    \E p \in Procs :
        \/ \E k \in Keys :
             \/ \E v \in Values : StoreCopy(p, k, v)
             \/ Zeroize(p, k) \/ Lookup(p, k) \/ NotFound(p, k)
        \/ StoreSwap(p) \/ ZeroizeAll(p) \/ Copy(p) \/ Use(p)

Spec == Init /\ [][Next]_vars

--------------------------------------------------------------------------------
(* Properties.                                                                *)

\* Every variable holds a value of its type, and m.mu is held for reading
\* exactly while an entry is being copied.
TypeOK ==
    /\ entries \in [Keys -> Bufs \cup {None}]
    /\ content \in [Bufs -> Values \cup {Zero}]
    /\ got \in [Procs -> {None} \cup (Keys \X (Values \cup {None, Zero}))]
    /\ x \in [Procs -> [pc : {"idle", "store", "copy", "use"}, key : Keys \cup {None},
                        buf : Bufs \cup {None}, out : Bufs \cup {None}]]
    /\ readers = {p \in Procs : At(p, "copy")}

\* No secret stays in memory that neither the store nor an operation under way
\* refers to: whatever replaces, drops or copies a secret zeroes it.
NoPlaintextBehind == \A b \in Fresh : content[b] = Zero

\* Goroutines that store, drop and look up at the same time see one map: a lookup
\* returns what was stored last and not dropped since, never zeros and never the
\* buffer of another operation.
Map == INSTANCE SecretMap WITH
    map <- [k \in Keys |-> IF entries[k] = None THEN None ELSE content[entries[k]]]
ImplementsSecretMap == Map!Spec
================================================================================
