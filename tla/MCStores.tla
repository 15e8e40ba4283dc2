-------------------------------- MODULE MCStores -------------------------------
(***************************************************************************)
(* One specification of the two credential stores.  They share no state,   *)
(* so that a behaviour of both is an interleaving of a behaviour of each,  *)
(* and it is enough to follow them one at a time.                          *)
(***************************************************************************)
EXTENDS MemStore, NhiStore

StoresInit == Init /\ StoreInit

StoresNext ==
    \/ StoreInit /\ Next /\ UNCHANGED storeVars
    \/ Init /\ StoreNext /\ UNCHANGED vars

StoresSpec == StoresInit /\ [][StoresNext]_<<vars, storeVars>>

================================================================================
