-------------------------- MODULE AddressProvider --------------------------
(***************************************************************************)
(* NacosAddressProvider: a goroutine asks an address server for the list   *)
(* of Nacos servers, every 30 seconds and when triggered.  Who wants the   *)
(* next address waits for it on a condition variable, in a goroutine that  *)
(* keeps the mutex of the condition while it hands the address over.       *)
(***************************************************************************)
EXTENDS FiniteSets

CONSTANT Addr

VARIABLES
    nacosAddr, nacosBackupAddr,
    provider,       \* the goroutine Run: "select", "asking", "answered" or "done"
    providerStop,   \* p.isStop
    \* the goroutine of GetNacosAddress: "none", "locking", "waiting" on the
    \* condition, "sending", or "gone" without an answer
    waiter,
    oldAddress

addressVars == <<nacosAddr, nacosBackupAddr>>
waiterVars == <<waiter, oldAddress>>
providerVars == <<addressVars, provider, providerStop, waiterVars>>

\* The mutex of the condition is kept across steps by a waiter that sends.
Locked == waiter = "sending"

Broadcast == waiter' = IF waiter = "waiting" THEN "locking" ELSE waiter

AddressInit ==
    /\ nacosAddr \in Addr
    /\ nacosBackupAddr \in SUBSET (Addr \ {nacosAddr})
    /\ provider = "select"
    /\ providerStop = FALSE
    /\ waiter = "none"
    /\ oldAddress = nacosAddr

-----------------------------------------------------------------------------
GetNacosAddress(old) ==
    /\ waiter \in {"none", "gone"}
    /\ waiter' = "locking"
    /\ oldAddress' = old

WaiterChecks ==
    /\ waiter = "locking"
    /\ waiter' = IF nacosAddr # oldAddress THEN "sending"
                 ELSE IF providerStop THEN "gone" ELSE "waiting"
    /\ UNCHANGED <<addressVars, provider, providerStop, oldAddress>>

\* One of the backups takes over, if there is one.
SwitchAddress ==
    \/ /\ nacosBackupAddr = {}
       /\ UNCHANGED addressVars
    \/ \E a \in nacosBackupAddr :
          /\ nacosAddr' = a
          /\ nacosBackupAddr' = (nacosBackupAddr \ {a}) \cup {nacosAddr}

\* Mutant of Trigger: the waiter is not woken.
TriggerQuietly ==
    /\ ~Locked
    /\ SwitchAddress
    /\ UNCHANGED <<provider, providerStop, waiterVars>>

Trigger ==
    /\ ~Locked
    /\ SwitchAddress
    /\ Broadcast
    /\ UNCHANGED <<provider, providerStop, oldAddress>>

\* The ticker, or the trigger, after which the server is asked at any moment all
\* the same.
AskServer ==
    /\ provider = "select"
    /\ provider' = "asking"
    /\ UNCHANGED <<addressVars, providerStop, waiterVars>>

\* No answer, or an empty one.
AskFails ==
    /\ provider = "asking"
    /\ provider' = "select"
    /\ UNCHANGED <<addressVars, providerStop, waiterVars>>

Answered ==
    /\ provider = "asking"
    /\ provider' = "answered"
    /\ UNCHANGED <<addressVars, providerStop, waiterVars>>

\* One of the addresses is not an IP: what was known stays.
NotParsed ==
    /\ provider = "answered"
    /\ ~Locked
    /\ provider' = "select"
    /\ UNCHANGED <<addressVars, providerStop, waiterVars>>

AddressesFound(addrVec) ==
    /\ provider = "answered"
    /\ ~Locked
    /\ addrVec # {}
    /\ provider' = "select"
    /\ IF nacosAddr \in addrVec
       THEN UNCHANGED <<nacosAddr, waiter>>
       ELSE nacosAddr' \in addrVec /\ Broadcast
    /\ nacosBackupAddr' = addrVec \ {nacosAddr'}
    /\ UNCHANGED <<providerStop, oldAddress>>

\* p.stop has no buffer: the sender waits until Run is back in its select.
StopReceived ==
    /\ provider = "select"
    /\ provider' = "done"
    /\ UNCHANGED <<addressVars, providerStop, waiterVars>>
=============================================================================
