--------------------------- MODULE EndpointLedger ---------------------------
(***************************************************************************)
(* What a reconnect loop promises about endpoints, without its scans,      *)
(* files, tunnels and listeners: every endpoint has an account of the      *)
(* tunnels it ended in a row; one that used up its strikes is held, is not *)
(* chosen while it is held, and is released later; a proxy is open only    *)
(* through the endpoint chosen last. run_wireguard keeps this account in   *)
(* one counter and one map; EngineSupervisor shows that it does.           *)
(***************************************************************************)
EXTENDS Naturals

CONSTANTS Endpoints, None, MaxStrikes

VARIABLES
    on,       \* the endpoint in use, or None
    strikes,  \* tunnels that ended in a row, per endpoint
    held,     \* endpoints no tunnel may be dialled on
    open,     \* the proxy is open
    life      \* how often the process was started: the account lasts as long

ledger == <<on, strikes, held, open, life>>

Clean == [e \in Endpoints |-> 0]

Init == on = None /\ strikes = Clean /\ held = {} /\ open = FALSE /\ life = 1

\* A tunnel is dialled on an endpoint that is not held; a new one starts clean.
Choose(e) ==
    /\ ~open /\ e \notin held
    /\ on' = e
    /\ strikes' = IF e = on THEN strikes ELSE Clean
    /\ UNCHANGED <<held, open, life>>

Open == ~open /\ on # None /\ open' = TRUE /\ UNCHANGED <<on, strikes, held, life>>

\* A tunnel ended, whether it ever served or not.
Strike ==
    /\ on # None /\ strikes[on] < MaxStrikes
    /\ strikes' = [strikes EXCEPT ![on] = @ + 1]
    /\ open' = FALSE
    /\ UNCHANGED <<on, held, life>>

\* Between two tunnels: some are released, and who used up the strikes is held.
Settle ==
    /\ ~open
    /\ \E kept \in SUBSET held :
         IF on # None /\ strikes[on] = MaxStrikes
         THEN on' = None /\ strikes' = Clean /\ held' = kept \cup {on}
         ELSE held' = kept /\ UNCHANGED <<on, strikes>>
    /\ UNCHANGED <<open, life>>

\* The process starts anew and remembers nothing of the account.
Restart ==
    /\ life' = life + 1
    /\ on' = None /\ strikes' = Clean /\ held' = {} /\ open' = FALSE

Next == (\E e \in Endpoints : Choose(e)) \/ Open \/ Strike \/ Settle \/ Restart

Spec == Init /\ [][Next]_ledger
=============================================================================
