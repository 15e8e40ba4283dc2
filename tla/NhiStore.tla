-------------------------------- MODULE NhiStore -------------------------------
(***************************************************************************)
(* The store of the NHI provider (src/nhi/store.go) and its readers: the   *)
(* getters of the provider, the HTTP transport and the SQL connector.  The *)
(* renewal and Stop write it at any time (NhiProvider has when).  A map    *)
(* holds the values of one credential until they are zeroed.  What runs    *)
(* under s.mu is one step when it is exclusive; a reader looks at the      *)
(* expiry and copies in two steps, since readers share the lock.           *)
(***************************************************************************)
CONSTANTS
    Readers,    \* goroutines that read
    Creds,      \* credentials (named again once nothing holds their values)
    Complete,   \* those with a value for every key the readers ask for
    Maps,       \* maps of values (collected and allocated again)
    NoCred, Missing, Gone

ASSUME NhiStoreAssumption ==
    /\ Complete \subseteq Creds
    /\ NoCred \notin Maps \cup Creds
    /\ Gone \notin Creds

VARIABLES
    cred,       \* s.cred: the map of the stored credential, or NoCred
    values,     \* whose values each map holds, or Gone
    expired,    \* its ExpiresAt has passed
    sharing,    \* readers that hold s.mu
    reads,      \* the call of each reader
    had         \* what each call could have found between its start and its end

storeVars == <<cred, values, expired, sharing, reads, had>>

Quiet == [pc |-> "idle", map |-> NoCred, got |-> NoCred]

StoreInit ==
    /\ cred = NoCred
    /\ values = [m \in Maps |-> Gone]
    /\ expired = FALSE
    /\ sharing = {}
    /\ reads = [r \in Readers |-> Quiet]
    /\ had = [r \in Readers |-> {NoCred}]

Free == Maps \ ({cred} \cup {reads[r].map : r \in Readers})

\* The credential a reader should get.
Now == IF cred = NoCred \/ expired THEN NoCred ELSE values[cred]

\* The calls under way could also have found what is there after this step.
Noted(later) ==
    had' = [r \in Readers |-> IF reads[r].pc = "idle" THEN had[r] ELSE had[r] \cup {later}]

--------------------------------------------------------------------------------
(* Writers                                                                    *)

zeroizeCredential == IF cred = NoCred THEN values ELSE [values EXCEPT ![cred] = Gone]

\* The old values are zeroed and a copy of the new ones is kept.  A package may
\* have expired before it is stored.
Set(c) ==
    /\ sharing = {}
    /\ c \notin {values[m] : m \in Maps \ Free} \cup UNION {had[r] : r \in Readers}
    /\ \E m \in Free :
         /\ cred' = m
         /\ values' = [zeroizeCredential EXCEPT ![m] = c]
    /\ \E late \in BOOLEAN : expired' = late /\ Noted(IF late THEN NoCred ELSE c)
    /\ UNCHANGED <<sharing, reads>>

Clear ==
    /\ sharing = {}
    /\ values' = zeroizeCredential
    /\ cred' = NoCred /\ expired' = FALSE
    /\ Noted(NoCred)
    /\ UNCHANGED <<sharing, reads>>

Expires ==
    /\ cred # NoCred /\ ~expired
    /\ expired' = TRUE
    /\ Noted(NoCred)
    /\ UNCHANGED <<cred, values, sharing, reads>>

--------------------------------------------------------------------------------
(* Readers                                                                    *)

\* The lock is shared and the credential is there and has not expired ...
Get(r) ==
    /\ reads[r].pc = "idle" /\ Now # NoCred
    /\ sharing' = sharing \cup {r}
    /\ reads' = [reads EXCEPT ![r] = [Quiet EXCEPT !.pc = "copy", !.map = cred]]
    /\ had' = [had EXCEPT ![r] = {Now}]
    /\ UNCHANGED <<cred, values, expired>>

\* ... or "no valid credential available" is returned.
GetNothing(r) ==
    /\ reads[r].pc = "idle" /\ Now = NoCred
    /\ reads' = [reads EXCEPT ![r] = Quiet]
    /\ had' = [had EXCEPT ![r] = {NoCred}]
    /\ UNCHANGED <<cred, values, expired, sharing>>

\* Mutant: the stored credential itself is returned.
copyCredentialNot(r) ==
    /\ reads[r].pc = "copy"
    /\ reads' = [reads EXCEPT ![r].pc = "use"]
    /\ sharing' = sharing \ {r}
    /\ UNCHANGED <<cred, values, expired, had>>

copyCredential(r) ==
    /\ reads[r].pc = "copy"
    /\ \E m \in Free :
         /\ values' = [values EXCEPT ![m] = values[reads[r].map]]
         /\ reads' = [reads EXCEPT ![r] = [@ EXCEPT !.pc = "use", !.map = m]]
    /\ sharing' = sharing \ {r}
    /\ UNCHANGED <<cred, expired, had>>

\* RoundTrip looks up one value, buildDSN fills its template with all of them.  A key
\* that is not there is an error.
Found(c) == IF c \in Complete THEN c ELSE Missing

\* The copy is left to the collector.
GetCredentials(r) ==
    /\ reads[r].pc = "use"
    /\ reads' = [reads EXCEPT ![r] = [Quiet EXCEPT !.got = Found(values[reads[r].map])]]
    /\ UNCHANGED <<cred, values, expired, sharing, had>>

StoreNext ==
    \/ \E c \in Creds : Set(c)
    \/ Clear \/ Expires
    \/ \E r \in Readers : Get(r) \/ GetNothing(r) \/ copyCredential(r) \/ GetCredentials(r)

StoreSpec == StoreInit /\ [][StoreNext]_storeVars

--------------------------------------------------------------------------------
(* Properties                                                                 *)

\* Every variable has a value of its type, and s.mu is shared by those that copy.
StoreTypeOK ==
    /\ cred \in Maps \cup {NoCred}
    /\ values \in [Maps -> Creds \cup {Gone}]
    /\ expired \in BOOLEAN
    /\ reads \in [Readers -> [pc : {"idle", "copy", "use"}, map : Maps \cup {NoCred},
                              got : Creds \cup {NoCred, Missing}]]
    /\ had \in [Readers -> SUBSET (Creds \cup {NoCred})]
    /\ sharing = {r \in Readers : reads[r].pc = "copy"}

\* What a call returns when it finds c.
Answer(c) == IF c = NoCred THEN NoCred ELSE Found(c)

\* A header or a DSN is made of one credential that was stored and had not expired
\* at some moment of the call, and a call fails only when there was none or the
\* credential lacks the key, whatever Set and Clear do to the stored values in the
\* meantime.
ServesCurrent ==
    \A r \in Readers : reads[r].pc = "idle" => reads[r].got \in {Answer(c) : c \in had[r]}

================================================================================
