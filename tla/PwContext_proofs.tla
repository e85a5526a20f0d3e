--------------------------- MODULE PwContext_proofs ---------------------------
(* Proofs about PwContext, for every number of connections and errors:      *)
(*                                                                          *)
(* - for every number of clients, reconnect() is exclusive although nothing *)
(*   but the count of holders keeps the other clients out. The argument is  *)
(*   about the role a client plays, not about where in a call it is: most   *)
(*   steps keep every role, and are dealt with by one lemma;                *)
(* - for a client that has the context for itself, a synchronize() that     *)
(*   succeeds was a round trip. The argument follows the one answer to its  *)
(*   m_sync_seq from PipeWire over the wire to the flag that it waits for.  *)
EXTENDS PwContext, TLAPS

RoleAt(place, caller) ==
  IF place = "out" THEN "out"
  ELSE IF place = "make" THEN "new"
  ELSE IF place = "lookup" THEN "lookup"
  ELSE IF place = "release" THEN "leaving"
  ELSE IF place \in {"idle", "reconnect"} THEN "using"
  ELSE IF place \in RebuildPC THEN "rebuilding"
  ELSE IF caller = "idle" THEN "using"
  ELSE IF caller = "publish" THEN "rebuilding"
  ELSE "making"

role == [c \in Clients |-> RoleAt(pc[c], ret[c])]

\* The types the argument needs.
Types ==
  /\ core \in Nat /\ cores \in Nat
  /\ tokens \in [Clients -> Nat] /\ built \in [Clients -> Nat]
  /\ pc \in [Clients -> PCs] /\ ret \in [Clients -> {"idle", "make", "make again", "publish"}]

\* Each lock is held by the client that is where the lock is held.
Locks ==
  \A c \in Clients :
    /\ holders_mtx = c <=> role[c] = "rebuilding"
    /\ registry_mtx = c <=> role[c] \in {"new", "making", "lookup"}

\* A client has a token from the end of shared_context() to its release.
Counted == \A c \in Clients : tokens[c] > 0 <=> role[c] \in {"using", "leaving", "rebuilding"}

\* A context that does not exist yet, or is being made, is known to one
\* client at most; one that is being rebuilt, to no other holder.
Alone ==
  /\ \A c \in Clients : state = "absent" => role[c] \in {"out", "new"}
  /\ \A c, d \in Clients : c # d /\ role[c] \in {"new", "making"} => role[d] = "out"
  /\ \A c, d \in Clients : c # d /\ role[c] = "rebuilding" => role[d] \in {"out", "lookup"}

\* What is built on the core is built on this one, by a client that uses it.
Live ==
  \A c \in Clients :
    /\ built[c] # 0 => built[c] = core /\ role[c] = "using"
    /\ pc[c] \in {"clear", "issue"} => core # 0

\* ReconnectExclusive alone is not inductive: that no other client has a token
\* while one rebuilds follows from where tokens are taken and dropped.
IInv == Types /\ Locks /\ Counted /\ Alone /\ Live

-----------------------------------------------------------------------------
(* Roles.                                                                   *)

USE ClientsAssumption
USE DEF At, Goto

LEMMA Initially == Init => IInv
BY DEF Init, IInv, Types, Locks, Counted, Alone, Live, role, RoleAt, PCs

\* A client outside synchronize() keeps its role when it keeps its place.
LEMMA OthersKeepRole ==
  ASSUME Types, NEW c \in Clients, NEW label \in PCs, Goto(c, label),
         \A d \in Clients \ {c} : ret'[d] = ret[d]
  PROVE  /\ pc' \in [Clients -> PCs]
         /\ pc'[c] = label
         /\ \A d \in Clients \ {c} : pc'[d] = pc[d] /\ role'[d] = role[d]
BY DEF Types, role

\* A client that does not know the context is not inside synchronize().
LEMMA StrangersDoNotSync ==
  ASSUME Types, NEW c \in Clients, role[c] \in {"out", "new", "lookup", "leaving"}
  PROVE  pc[c] \notin SyncPC
BY DEF Types, role, RoleAt, SyncPC, RebuildPC

\* Most steps keep every role, every lock and what is built.
LEMMA Silent ==
  ASSUME IInv, Types', role' = role, UNCHANGED <<tokens, holders_mtx, registry_mtx>>,
         state' = "absent" => state = "absent",
         \A c \in Clients : built'[c] # 0 =>
            built'[c] = core' /\ role[c] = "using",
         \A c \in Clients : pc'[c] \in {"clear", "issue"} => core' # 0
  PROVE  IInv'
BY DEF IInv, Locks, Counted, Alone, Live

\* A synchronize() returns to where it was called from.
LEMMA Returns ==
  ASSUME IInv, NEW c \in Clients, pc[c] \in SyncPC, NEW ok \in BOOLEAN, Return(c, ok),
         UNCHANGED <<core, cores>>, state' = "absent" => state = "absent"
  PROVE  IInv'
<1>1. /\ pc'[c] \in {"idle", "check", "lookup", "publish"}
      /\ \A d \in Clients \ {c} : pc'[d] = pc[d] /\ ret'[d] = ret[d]
      /\ Types'
  BY DEF IInv, Types, Return, PCs, SyncPC, RebuildPC
<1>2. \A d \in Clients \ {c} : role'[d] = role[d]
  BY <1>1 DEF role
<1>3. role[c] = CASE ret[c] = "idle" -> "using" [] ret[c] = "publish" -> "rebuilding"
                  [] OTHER -> "making"
  BY DEF IInv, Types, role, RoleAt, SyncPC, RebuildPC
<1>4. /\ UNCHANGED <<tokens, registry_mtx, built>>
      /\ holders_mtx' = IF ret[c] = "publish" /\ ~ok THEN None ELSE holders_mtx
  BY DEF Return
<1>5. \A d \in Clients : pc'[d] \in {"clear", "issue"} => core' # 0
  BY <1>1 DEF IInv, Live
<1>6. CASE ret[c] = "idle"
  <2>1. pc'[c] = "idle" /\ ret'[c] = "idle"
    BY <1>6 DEF Return, IInv, Types
  <2>2. role' = role
    BY <1>2, <1>3, <1>6, <2>1 DEF role, RoleAt
  <2> QED
    BY <1>1, <1>4, <1>5, <1>6, <2>2, Silent DEF IInv, Live
<1>7. CASE ret[c] \in {"make", "make again"}
  <2>1. role[c] = "making" /\ role'[c] \in {"making", "lookup"}
    BY <1>3, <1>7 DEF Return, IInv, Types, role, RoleAt, RebuildPC
  <2>2. Locks' /\ Counted'
    BY <1>2, <1>4, <1>7, <2>1 DEF IInv, Locks, Counted
  <2>3. Alone'
    BY <1>2, <2>1 DEF IInv, Alone
  <2>4. Live'
    BY <1>2, <1>4, <1>5, <2>1 DEF IInv, Live
  <2> QED
    BY <1>1, <2>2, <2>3, <2>4 DEF IInv
<1>8. CASE ret[c] = "publish"
  <2>1. role[c] = "rebuilding" /\ role'[c] = IF ok THEN "rebuilding" ELSE "using"
    BY <1>3, <1>8 DEF Return, IInv, Types, role, RoleAt, RebuildPC
  <2>2. Locks' /\ Counted'
    BY <1>2, <1>4, <1>8, <2>1 DEF IInv, Locks, Counted
  <2>3. Alone'
    BY <1>2, <2>1 DEF IInv, Alone
  <2>4. Live'
    BY <1>2, <1>4, <1>5, <2>1 DEF IInv, Live
  <2> QED
    BY <1>1, <2>2, <2>3, <2>4 DEF IInv
<1> QED  BY <1>6, <1>7, <1>8 DEF IInv, Types

-----------------------------------------------------------------------------
(* One lemma per action.                                                    *)

\* m_shared_holders goes up and down by one.
LEMMA CountUp ==
  ASSUME NEW f \in [Clients -> Nat], NEW c \in Clients
  PROVE  /\ [f EXCEPT ![c] = @ + 1] \in [Clients -> Nat]
         /\ [f EXCEPT ![c] = @ + 1][c] > 0
         /\ \A d \in Clients \ {c} : [f EXCEPT ![c] = @ + 1][d] = f[d]
OBVIOUS

LEMMA CountDown ==
  ASSUME NEW f \in [Clients -> Nat], NEW c \in Clients, f[c] > 0
  PROVE  /\ [f EXCEPT ![c] = @ - 1] \in [Clients -> Nat]
         /\ [f EXCEPT ![c] = @ - 1][c] > 0 <=> f[c] # 1
         /\ \A d \in Clients \ {c} : [f EXCEPT ![c] = @ - 1][d] = f[d]
OBVIOUS

LEMMA EnterRegistryStep == ASSUME IInv, NEW c \in Clients, EnterRegistry(c) PROVE IInv'
<1>1. /\ registry_mtx = None /\ registry_mtx' = c /\ UNCHANGED <<tokens, holders_mtx, state, core, built>>
      /\ role[c] = "out" /\ role'[c] = IF state = "absent" THEN "new" ELSE "lookup"
      /\ \A d \in Clients \ {c} : pc'[d] = pc[d] /\ role'[d] = role[d]
      /\ pc'[c] \in {"make", "lookup"} /\ Types'
  BY DEF EnterRegistry, IInv, Types, role, RoleAt, PCs, conn_vars, call_vars
<1>2. Locks' /\ Counted'
  BY <1>1 DEF IInv, Locks, Counted
<1>3. Alone'
  BY <1>1 DEF IInv, Alone, Locks, Counted
<1>4. Live'
  BY <1>1 DEF IInv, Live
<1> QED  BY <1>1, <1>2, <1>3, <1>4 DEF IInv

LEMMA MakeStep == ASSUME IInv, NEW c \in Clients, Make(c) PROVE IInv'
<1>1. /\ UNCHANGED <<tokens, holders_mtx, registry_mtx, built>> /\ state' # "absent"
      /\ role[c] = "new" /\ role'[c] \in {"making", "lookup"}
      /\ \A d \in Clients \ {c} : pc'[d] = pc[d] /\ role'[d] = role[d]
      /\ pc'[c] \in {"check", "lookup"}
  BY DEF Make, Connected, NotConnected, IInv, Types, role, RoleAt, PCs, SyncPC, RebuildPC,
         lock_vars, call_vars
<1>5. core' \in Nat /\ cores' \in Nat
  <2>1. core \in Nat /\ cores \in Nat
    BY DEF IInv, Types
  <2>2. \/ core' = cores + 1 /\ cores' = cores + 1
        \/ core' = core /\ cores' = cores
    BY DEF Make, Connected, NotConnected
  <2> QED  BY <2>1, <2>2
<1>6. Types'
  BY <1>5 DEF Make, Connected, NotConnected, IInv, Types, PCs, SyncPC, lock_vars, call_vars
<1>2. Locks' /\ Counted'
  BY <1>1 DEF IInv, Locks, Counted
<1>3. Alone'
  BY <1>1 DEF IInv, Alone
<1>4. Live'
  <2>1. \A d \in Clients \ {c} : role[d] = "out"
    BY <1>1 DEF IInv, Alone
  <2>2. \A d \in Clients \ {c} : pc[d] \notin SyncPC
    BY <2>1, StrangersDoNotSync DEF IInv
  <2> QED
    BY <1>1, <2>1, <2>2 DEF IInv, Live, SyncPC
<1> QED  BY <1>2, <1>3, <1>4, <1>6 DEF IInv

LEMMA TakeTokenStep == ASSUME IInv, NEW c \in Clients, TakeToken(c) PROVE IInv'
<1>1. /\ holders_mtx = None /\ registry_mtx' = None /\ UNCHANGED <<holders_mtx, state, core, built>>
      /\ role[c] = "lookup" /\ role'[c] = "using"
      /\ \A d \in Clients \ {c} : pc'[d] = pc[d] /\ role'[d] = role[d]
      /\ pc'[c] = "idle"
  BY DEF TakeToken, IInv, Types, role, RoleAt, PCs, conn_vars, call_vars
<1>5. /\ tokens' \in [Clients -> Nat] /\ tokens'[c] > 0
      /\ \A d \in Clients \ {c} : tokens'[d] = tokens[d]
  <2>1. tokens \in [Clients -> Nat] /\ tokens' = [tokens EXCEPT ![c] = @ + 1]
    BY DEF TakeToken, IInv, Types
  <2> QED  BY <2>1, CountUp
<1>6. Types'
  BY <1>5 DEF TakeToken, IInv, Types, PCs, conn_vars, call_vars
<1>2. Locks' /\ Counted'
  BY <1>1, <1>5 DEF IInv, Locks, Counted
<1>3. Alone'
  BY <1>1 DEF IInv, Alone, Locks
<1>4. Live'
  BY <1>1 DEF IInv, Live
<1> QED  BY <1>2, <1>3, <1>4, <1>6 DEF IInv

LEMMA BeginReleaseStep == ASSUME IInv, NEW c \in Clients, BeginRelease(c) PROVE IInv'
<1>1. /\ UNCHANGED <<tokens, holders_mtx, registry_mtx, state, core, built>> /\ built[c] = 0
      /\ role[c] = "using" /\ role'[c] = "leaving"
      /\ \A d \in Clients \ {c} : pc'[d] = pc[d] /\ role'[d] = role[d]
      /\ pc'[c] = "release" /\ Types'
  BY DEF BeginRelease, IInv, Types, role, RoleAt, PCs, conn_vars, lock_vars, call_vars
<1>2. Locks' /\ Counted'
  BY <1>1 DEF IInv, Locks, Counted
<1>3. Alone'
  BY <1>1 DEF IInv, Alone
<1>4. Live'
  BY <1>1 DEF IInv, Live
<1> QED  BY <1>1, <1>2, <1>3, <1>4 DEF IInv

\* The last reference can only go when no other client is anywhere but out.
LEMMA ReleaseTokenStep == ASSUME IInv, NEW c \in Clients, ReleaseToken(c) PROVE IInv'
<1>1. /\ UNCHANGED <<holders_mtx, registry_mtx, built>>
      /\ role[c] = "leaving" /\ role'[c] = IF tokens[c] = 1 THEN "out" ELSE "using"
      /\ \A d \in Clients \ {c} : pc'[d] = pc[d] /\ role'[d] = role[d]
      /\ pc'[c] \in {"out", "idle"}
  BY DEF ReleaseToken, IInv, Types, role, RoleAt, PCs, call_vars
<1>2. /\ tokens'[c] > 0 <=> tokens[c] # 1
      /\ \A d \in Clients \ {c} : tokens'[d] = tokens[d]
      /\ tokens' \in [Clients -> Nat]
  <2>1. tokens[c] > 0 /\ tokens \in [Clients -> Nat]
    BY <1>1 DEF IInv, Types, Counted
  <2>2. tokens' = [tokens EXCEPT ![c] = @ - 1]
    BY DEF ReleaseToken
  <2> QED  BY <2>1, <2>2, CountDown
<1>7. core' \in Nat /\ cores' \in Nat
  <2>1. core \in Nat /\ cores \in Nat
    BY DEF IInv, Types
  <2>2. \/ core' = 0 /\ cores' = 0
        \/ core' = core /\ cores' = cores
    BY DEF ReleaseToken, conn_vars
  <2> QED  BY <2>1, <2>2
<1>3. Types'
  BY <1>2, <1>7 DEF IInv, Types, ReleaseToken, PCs, call_vars
<1>4. Locks' /\ Counted'
  <2>1. Locks'
    BY <1>1 DEF IInv, Locks
  <2>2. Counted'
    BY <1>1, <1>2 DEF IInv, Counted
  <2> QED  BY <2>1, <2>2
<1>5. CASE tokens[c] = 1 /\ LastReference(c)
  <2>1. \A d \in Clients \ {c} : role[d] = "out"
    <3> SUFFICES ASSUME NEW d \in Clients \ {c} PROVE role[d] = "out"
      OBVIOUS
    <3>1. role[d] \notin {"using", "leaving", "rebuilding", "lookup"}
      <4>1. tokens[d] = 0 /\ pc[d] # "lookup"
        BY <1>5 DEF LastReference
      <4>2. role[d] # "lookup"
        BY <4>1 DEF role, RoleAt
      <4> QED  BY <4>1, <4>2 DEF IInv, Counted
    <3>2. role[d] \notin {"new", "making"}
      BY <1>1 DEF IInv, Alone
    <3> QED  BY <3>1, <3>2 DEF IInv, Types, role, RoleAt
  <2>2. \A d \in Clients : pc[d] \notin SyncPC
    BY <1>1, <2>1, StrangersDoNotSync DEF IInv
  <2>3. Alone'
    BY <1>1, <1>5, <2>1 DEF Alone
  <2>4. Live'
    BY <1>1, <2>1, <2>2 DEF IInv, Live, SyncPC
  <2> QED  BY <1>3, <1>4, <2>3, <2>4 DEF IInv
<1>6. CASE ~(tokens[c] = 1 /\ LastReference(c))
  <2>1. UNCHANGED <<state, core>>
    BY <1>6 DEF ReleaseToken, conn_vars
  <2>2. Alone'
    BY <1>1, <2>1 DEF IInv, Alone
  <2>3. Live'
    BY <1>1, <2>1 DEF IInv, Live
  <2> QED  BY <1>3, <1>4, <2>2, <2>3 DEF IInv
<1> QED  BY <1>5, <1>6

LEMMA BeginSyncStep == ASSUME IInv, NEW c \in Clients, BeginSync(c) PROVE IInv'
<1>1. Types' /\ UNCHANGED <<tokens, holders_mtx, registry_mtx, state, core, built>>
  BY DEF BeginSync, IInv, Types, PCs, SyncPC, RebuildPC, conn_vars, lock_vars, call_vars
<1>2. role' = role
  BY DEF BeginSync, IInv, Types, role, RoleAt, PCs, SyncPC, RebuildPC
<1>3. \A d \in Clients : pc'[d] \in {"clear", "issue"} => core' # 0
  BY DEF BeginSync, IInv, Types, Live, conn_vars
<1> QED  BY <1>1, <1>2, <1>3, Silent DEF IInv, Live

LEMMA ClearFlagsStep == ASSUME IInv, NEW c \in Clients, ClearFlags(c) PROVE IInv'
<1>1. Types' /\ UNCHANGED <<tokens, holders_mtx, registry_mtx, state, core, built>>
  BY DEF ClearFlags, IInv, Types, PCs, SyncPC, RebuildPC, conn_vars, lock_vars, call_vars
<1>2. role' = role
  BY DEF ClearFlags, IInv, Types, role, RoleAt, PCs, SyncPC, RebuildPC
<1>3. \A d \in Clients : pc'[d] \in {"clear", "issue"} => core' # 0
  BY DEF ClearFlags, IInv, Types, Live, conn_vars
<1> QED  BY <1>1, <1>2, <1>3, Silent DEF IInv, Live

LEMMA IssueStep == ASSUME IInv, NEW c \in Clients, Issue(c) PROVE IInv'
<1>1. Types' /\ UNCHANGED <<tokens, holders_mtx, registry_mtx, state, core, built>>
  BY DEF Issue, IInv, Types, PCs, SyncPC, RebuildPC, conn_vars, lock_vars, call_vars
<1>2. role' = role
  BY DEF Issue, IInv, Types, role, RoleAt, PCs, SyncPC, RebuildPC
<1>3. \A d \in Clients : pc'[d] \in {"clear", "issue"} => core' # 0
  BY DEF Issue, IInv, Types, Live, conn_vars
<1> QED  BY <1>1, <1>2, <1>3, Silent DEF IInv, Live

LEMMA WokenStep == ASSUME IInv, NEW c \in Clients, Woken(c) PROVE IInv'
<1>1. Types' /\ UNCHANGED <<tokens, holders_mtx, registry_mtx, state, core, built>>
  BY DEF Woken, IInv, Types, PCs, SyncPC, RebuildPC, conn_vars, lock_vars, call_vars
<1>2. role' = role
  BY DEF Woken, IInv, Types, role, RoleAt, PCs, SyncPC, RebuildPC
<1>3. \A d \in Clients : pc'[d] \in {"clear", "issue"} => core' # 0
  BY DEF Woken, IInv, Types, Live, conn_vars
<1> QED  BY <1>1, <1>2, <1>3, Silent DEF IInv, Live

LEMMA BeginReconnectStep == ASSUME IInv, NEW c \in Clients, BeginReconnect(c) PROVE IInv'
<1>1. Types' /\ UNCHANGED <<tokens, holders_mtx, registry_mtx, state, core, built>>
  BY DEF BeginReconnect, IInv, Types, PCs, SyncPC, RebuildPC, conn_vars, lock_vars, call_vars
<1>2. role' = role
  BY DEF BeginReconnect, IInv, Types, role, RoleAt, PCs, SyncPC, RebuildPC
<1>3. \A d \in Clients : pc'[d] \in {"clear", "issue"} => core' # 0
  BY DEF BeginReconnect, IInv, Types, Live, conn_vars
<1> QED  BY <1>1, <1>2, <1>3, Silent DEF IInv, Live

LEMMA CallbackLooksUpStep == ASSUME IInv, NEW c \in Clients, CallbackLooksUp(c) PROVE IInv'
<1>1. Types' /\ UNCHANGED <<tokens, holders_mtx, registry_mtx, state, core, built>>
  BY DEF CallbackLooksUp, IInv, Types, PCs, SyncPC, RebuildPC, conn_vars, lock_vars, call_vars
<1>2. role' = role
  BY DEF CallbackLooksUp, IInv, Types, role, RoleAt, PCs, SyncPC, RebuildPC
<1>3. \A d \in Clients : pc'[d] \in {"clear", "issue"} => core' # 0
  BY DEF CallbackLooksUp, IInv, Types, Live, conn_vars
<1> QED  BY <1>1, <1>2, <1>3, Silent DEF IInv, Live

LEMMA InvalidatedStep == ASSUME IInv, NEW c \in Clients, Invalidated(c) PROVE IInv'
<1>1. Types' /\ UNCHANGED <<tokens, holders_mtx, registry_mtx, state, core, built>>
  BY DEF Invalidated, IInv, Types, PCs, SyncPC, RebuildPC, conn_vars, lock_vars, call_vars
<1>2. role' = role
  BY DEF Invalidated, IInv, Types, role, RoleAt, PCs, SyncPC, RebuildPC
<1>3. \A d \in Clients : pc'[d] \in {"clear", "issue"} => core' # 0
  BY DEF Invalidated, IInv, Types, Live, conn_vars
<1> QED  BY <1>1, <1>2, <1>3, Silent DEF IInv, Live

LEMMA BuildStreamStep == ASSUME IInv, NEW c \in Clients, BuildStream(c) PROVE IInv'
<1>1. Types' /\ UNCHANGED <<tokens, holders_mtx, registry_mtx, state, core, pc, ret>>
  BY DEF BuildStream, IInv, Types, conn_vars, lock_vars
<1>2. role' = role /\ role[c] = "using"
  BY <1>1 DEF BuildStream, IInv, Types, role, RoleAt
<1>3. \A d \in Clients : built'[d] # 0 => built'[d] = core' /\ role[d] = "using"
  BY <1>1, <1>2 DEF BuildStream, IInv, Types, Live
<1> QED  BY <1>1, <1>2, <1>3, Silent DEF IInv, Live

LEMMA DropStreamStep == ASSUME IInv, NEW c \in Clients, DropStream(c) PROVE IInv'
<1>1. Types' /\ UNCHANGED <<tokens, holders_mtx, registry_mtx, state, core, pc, ret>>
  BY DEF DropStream, IInv, Types, conn_vars, lock_vars
<1>2. role' = role
  BY <1>1 DEF role
<1>3. \A d \in Clients : built'[d] # 0 => built'[d] = core' /\ role[d] = "using"
  BY <1>1, <1>2 DEF DropStream, IInv, Types, Live
<1> QED  BY <1>1, <1>2, <1>3, Silent DEF IInv, Live

LEMMA CheckStep == ASSUME IInv, NEW c \in Clients, Check(c) PROVE IInv'
<1>1. CASE state = "broken" \/ core = 0
  <2>1. pc[c] \in SyncPC /\ Return(c, FALSE) /\ UNCHANGED <<core, cores, state>>
    BY <1>1 DEF Check, SyncPC, conn_vars
  <2> QED  BY <2>1, Returns
<1>2. CASE ~(state = "broken" \/ core = 0)
  <2>1. Types' /\ UNCHANGED <<tokens, holders_mtx, registry_mtx, state, core, built>>
    BY <1>2 DEF Check, IInv, Types, PCs, SyncPC, RebuildPC, conn_vars, lock_vars, call_vars
  <2>2. role' = role
    BY <1>2 DEF Check, IInv, Types, role, RoleAt, PCs, SyncPC, RebuildPC
  <2> QED  BY <1>2, <2>1, <2>2, Silent DEF IInv, Live
<1> QED  BY <1>1, <1>2

LEMMA TimedOutStep == ASSUME IInv, NEW c \in Clients, TimedOut(c) PROVE IInv'
<1>1. pc[c] \in SyncPC /\ Return(c, FALSE) /\ UNCHANGED <<core, cores>> /\ state' # "absent"
  BY DEF TimedOut, SyncPC
<1> QED  BY <1>1, Returns

LEMMA FinalizeStep == ASSUME IInv, NEW c \in Clients, Finalize(c) PROVE IInv'
<1>1. CASE state = "connecting" /\ ~sync_error
  <2>1. Types' /\ UNCHANGED <<tokens, holders_mtx, registry_mtx, state, core, built>>
    BY <1>1 DEF Finalize, IInv, Types, PCs, SyncPC, RebuildPC, conn_vars, lock_vars, call_vars
  <2>2. role' = role
    BY <1>1 DEF Finalize, IInv, Types, role, RoleAt, PCs, SyncPC, RebuildPC
  <2>3. \A d \in Clients : pc'[d] \in {"clear", "issue"} => core' # 0
    BY <1>1 DEF Finalize, IInv, Types, Live, conn_vars
  <2> QED  BY <2>1, <2>2, <2>3, Silent DEF IInv, Live
<1>2. CASE ~(state = "connecting" /\ ~sync_error)
  <2> DEFINE ok == ~sync_error
  <2>1. pc[c] \in SyncPC /\ Return(c, ok) /\ UNCHANGED <<core, cores, state>>
    BY <1>2 DEF Finalize, SyncPC, conn_vars
  <2>2. ok \in BOOLEAN
    OBVIOUS
  <2> HIDE DEF ok
  <2> QED  BY <2>1, <2>2, Returns
<1> QED  BY <1>1, <1>2

LEMMA PromoteStep == ASSUME IInv, NEW c \in Clients, Promote(c) PROVE IInv'
<1>1. pc[c] \in SyncPC /\ Return(c, TRUE) /\ UNCHANGED <<core, cores>> /\ state' # "absent"
  BY DEF Promote, SyncPC
<1> QED  BY <1>1, Returns

LEMMA WorkerStep == ASSUME IInv, OnCoreDone \/ OnCoreError \/ SendError PROVE IInv'
<1>1. /\ UNCHANGED <<tokens, holders_mtx, registry_mtx, core, cores, built, pc, ret>>
      /\ state' = "absent" => state = "absent"
  BY DEF OnCoreDone, OnCoreError, SendError, conn_vars, lock_vars, call_vars
<1>2. Types' /\ role' = role
  BY <1>1 DEF IInv, Types, role
<1> QED  BY <1>1, <1>2, Silent DEF IInv, Live

-----------------------------------------------------------------------------
(* reconnect(): the guard makes the role exclusive, the lock keeps it so.   *)

LEMMA LockAndCheckStep == ASSUME IInv, NEW c \in Clients, LockAndCheck(c) PROVE IInv'
<1>1. CASE Shared
  <2>1. Types' /\ UNCHANGED <<tokens, holders_mtx, registry_mtx, state, core, built>>
    BY <1>1 DEF LockAndCheck, IInv, Types, PCs, conn_vars
  <2>2. role' = role
    <3>1. pc[c] = "reconnect" /\ pc' = [pc EXCEPT ![c] = "idle"] /\ ret' = ret
      BY <1>1 DEF LockAndCheck
    <3> QED  BY <3>1 DEF IInv, Types, role, RoleAt, PCs, SyncPC, RebuildPC
  <2>3. \A d \in Clients : pc'[d] \in {"clear", "issue"} => core' # 0
    BY <1>1 DEF LockAndCheck, IInv, Types, Live, conn_vars
  <2> QED  BY <2>1, <2>2, <2>3, Silent DEF IInv, Live
<1>2. CASE ~Shared
  <2>1. /\ holders_mtx = None /\ holders_mtx' = c
        /\ UNCHANGED <<tokens, registry_mtx, state, core>>
        /\ role[c] = "using" /\ role'[c] = "rebuilding"
        /\ \A d \in Clients \ {c} : pc'[d] = pc[d] /\ role'[d] = role[d]
        /\ pc'[c] = "invalidate"
    <3>1. /\ pc[c] = "reconnect" /\ pc' = [pc EXCEPT ![c] = "invalidate"] /\ ret' = ret
          /\ holders_mtx = None /\ holders_mtx' = c
          /\ UNCHANGED <<tokens, registry_mtx, state, core>>
      BY <1>2 DEF LockAndCheck, conn_vars
    <3> QED  BY <3>1 DEF IInv, Types, role, RoleAt, PCs, SyncPC, RebuildPC
  <2>2. built' = [built EXCEPT ![c] = 0] /\ Types'
    <3>1. /\ built' = [built EXCEPT ![c] = 0] /\ pc' = [pc EXCEPT ![c] = "invalidate"]
          /\ UNCHANGED <<core, cores, tokens, ret>>
      BY <1>2 DEF LockAndCheck, conn_vars
    <3> QED  BY <3>1 DEF IInv, Types, PCs, RebuildPC
  <2>3. \A d \in Clients \ {c} : role[d] \in {"out", "lookup"}
    <3> SUFFICES ASSUME NEW d \in Clients \ {c} PROVE role[d] \in {"out", "lookup"}
      OBVIOUS
    <3>1. tokens[c] > 0 /\ ~ (tokens[c] > 0 /\ tokens[d] > 0)
      BY <1>2, <2>1 DEF IInv, Counted, Shared
    <3>2. role[d] \notin {"using", "leaving", "rebuilding"}
      BY <3>1 DEF IInv, Counted
    <3>3. role[d] \notin {"new", "making"}
      BY <2>1 DEF IInv, Alone
    <3> QED  BY <3>2, <3>3 DEF IInv, Types, role, RoleAt
  <2>4. Locks' /\ Counted'
    BY <2>1 DEF IInv, Locks, Counted
  <2>5. Alone'
    BY <2>1, <2>3 DEF IInv, Alone
  <2>6. Live'
    BY <2>1, <2>2 DEF IInv, Types, Live
  <2> QED  BY <2>2, <2>4, <2>5, <2>6 DEF IInv
<1> QED  BY <1>1, <1>2

LEMMA CallbackTakesTokenStep ==
  ASSUME IInv, NEW c \in Clients, CallbackTakesToken(c) PROVE IInv'
<1>1. /\ UNCHANGED <<holders_mtx, registry_mtx, state, core, built>>
      /\ role' = role /\ role[c] = "rebuilding"
      /\ \A d \in Clients \ {c} : pc'[d] = pc[d]
      /\ pc'[c] = "tear_down"
  BY DEF CallbackTakesToken, IInv, Types, role, RoleAt, PCs, RebuildPC, conn_vars, call_vars
<1>2. /\ tokens' \in [Clients -> Nat] /\ tokens'[c] > 0
      /\ \A d \in Clients \ {c} : tokens'[d] = tokens[d]
  <2>1. tokens \in [Clients -> Nat] /\ tokens' = [tokens EXCEPT ![c] = @ + 1]
    BY DEF CallbackTakesToken, IInv, Types
  <2> QED  BY <2>1, CountUp
<1>3. Types'
  BY <1>2 DEF CallbackTakesToken, IInv, Types, PCs, RebuildPC, conn_vars, call_vars
<1>4. Locks' /\ Counted'
  BY <1>1, <1>2 DEF IInv, Locks, Counted
<1>5. Alone' /\ Live'
  BY <1>1 DEF IInv, Alone, Live
<1> QED  BY <1>3, <1>4, <1>5 DEF IInv

\* Whoever rebuilds has dropped its own stream, and the others have none.
LEMMA NothingBuilt ==
  ASSUME IInv, NEW c \in Clients, role[c] = "rebuilding"
  PROVE  \A d \in Clients : /\ built[d] = 0
                            /\ d # c => pc[d] \notin SyncPC
<1>1. \A d \in Clients \ {c} : role[d] \in {"out", "lookup"}
  BY DEF IInv, Alone
<1> QED  BY <1>1, StrangersDoNotSync DEF IInv, Live

LEMMA TearDownStep == ASSUME IInv, NEW c \in Clients, TearDown(c) PROVE IInv'
<1>1. /\ Types' /\ UNCHANGED <<tokens, holders_mtx, registry_mtx, built>> /\ state' # "absent"
      /\ \A d \in Clients \ {c} : pc'[d] = pc[d]
      /\ pc'[c] = "build"
  BY DEF TearDown, IInv, Types, PCs, RebuildPC, lock_vars, call_vars
<1>2. role' = role /\ role[c] = "rebuilding"
  BY DEF TearDown, IInv, Types, role, RoleAt, RebuildPC
<1>3. \A d \in Clients : pc'[d] \in {"clear", "issue"} => core' # 0
  BY <1>1, <1>2, NothingBuilt DEF SyncPC
<1> QED  BY <1>1, <1>2, <1>3, NothingBuilt, Silent

LEMMA BuildStep == ASSUME IInv, NEW c \in Clients, Build(c) PROVE IInv'
<1>1. /\ UNCHANGED <<tokens, registry_mtx, built>> /\ state' # "absent"
      /\ \A d \in Clients \ {c} : pc'[d] = pc[d] /\ role'[d] = role[d]
      /\ role[c] = "rebuilding" /\ pc'[c] \in {"check", "idle"}
      /\ \/ role'[c] = "rebuilding" /\ holders_mtx' = holders_mtx
         \/ role'[c] = "using" /\ holders_mtx' = None
  BY DEF Build, Connected, NotConnected, IInv, Types, role, RoleAt, PCs, SyncPC, RebuildPC, call_vars
<1>2. core' \in Nat /\ cores' \in Nat
  <2>1. core \in Nat /\ cores \in Nat
    BY DEF IInv, Types
  <2>2. \/ core' = cores + 1 /\ cores' = cores + 1
        \/ core' = core /\ cores' = cores
    BY DEF Build, Connected, NotConnected
  <2> QED  BY <2>1, <2>2
<1>3. Types'
  BY <1>2 DEF Build, Connected, NotConnected, IInv, Types, PCs, SyncPC, call_vars
<1>4. Locks' /\ Counted'
  BY <1>1 DEF IInv, Locks, Counted
<1>5. Alone'
  BY <1>1 DEF IInv, Alone
<1>6. Live'
  BY <1>1, NothingBuilt DEF Live, SyncPC
<1> QED  BY <1>3, <1>4, <1>5, <1>6 DEF IInv

LEMMA PublishStep == ASSUME IInv, NEW c \in Clients, Publish(c) PROVE IInv'
<1>1. /\ UNCHANGED <<tokens, registry_mtx, built, core>> /\ state' # "absent"
      /\ \A d \in Clients \ {c} : pc'[d] = pc[d] /\ role'[d] = role[d]
      /\ role[c] = "rebuilding" /\ pc'[c] = "idle"
      /\ role'[c] = "using" /\ holders_mtx' = None
      /\ Types'
  BY DEF Publish, IInv, Types, role, RoleAt, PCs, RebuildPC, call_vars
<1>2. Locks' /\ Counted'
  BY <1>1 DEF IInv, Locks, Counted
<1>3. Alone'
  BY <1>1 DEF IInv, Alone
<1>4. Live'
  BY <1>1, NothingBuilt DEF Live, SyncPC
<1> QED  BY <1>1, <1>2, <1>3, <1>4 DEF IInv

-----------------------------------------------------------------------------

THEOREM Invariance == Spec => []IInv
<1>1. IInv /\ [Next]_vars => IInv'
  <2> SUFFICES ASSUME IInv, [Next]_vars PROVE IInv'
    OBVIOUS
  <2>1. ASSUME NEW c \in Clients, Holding(c) PROVE IInv'
    BY <2>1, EnterRegistryStep, MakeStep, TakeTokenStep, BeginReleaseStep, ReleaseTokenStep,
       BuildStreamStep, DropStreamStep DEF Holding
  <2>2. ASSUME NEW c \in Clients, Synchronizing(c) PROVE IInv'
    BY <2>2, BeginSyncStep, CheckStep, ClearFlagsStep, IssueStep, WokenStep, TimedOutStep,
       FinalizeStep, PromoteStep DEF Synchronizing
  <2>3. ASSUME NEW c \in Clients, Reconnecting(c) PROVE IInv'
    BY <2>3, BeginReconnectStep, LockAndCheckStep, CallbackLooksUpStep, CallbackTakesTokenStep,
       InvalidatedStep, TearDownStep, BuildStep, PublishStep DEF Reconnecting
  <2>4. CASE UNCHANGED vars
    <3>1. UNCHANGED <<tokens, holders_mtx, registry_mtx, state, core, cores, built, pc, ret>>
      BY <2>4 DEF vars, conn_vars, lock_vars, call_vars
    <3> QED  BY <3>1 DEF IInv, Types, Locks, Counted, Alone, Live, role
  <2> QED  BY <2>1, <2>2, <2>3, <2>4, WorkerStep DEF Next
<1> QED  BY Initially, <1>1, PTL DEF Spec

\* From its guard to its return a reconnect() is alone, whatever the number of
\* clients: no other one has a holder or is inside synchronize().
THEOREM ReconnectExclusiveTheorem == Spec => []ReconnectExclusive
<1>1. IInv => ReconnectExclusive
  <2> SUFFICES ASSUME IInv, NEW c \in Clients, NEW d \in Clients, holders_mtx = c, d # c
               PROVE  tokens[d] = 0 /\ pc[d] \notin SyncPC
    BY DEF ReconnectExclusive
  <2>1. role[c] = "rebuilding"
    BY DEF IInv, Locks
  <2>2. role[d] \in {"out", "lookup"}
    BY <2>1 DEF IInv, Alone
  <2>3. ~(tokens[d] > 0) /\ tokens[d] \in Nat
    BY <2>2 DEF IInv, Counted, Types
  <2> QED  BY <2>1, <2>3, NothingBuilt
<1> QED  BY <1>1, Invariance, PTL

\* A filter or stream is never left on a core that was replaced.
THEOREM NoDanglingStreamTheorem == Spec => []NoDanglingStream
<1>1. IInv => NoDanglingStream
  BY DEF IInv, Live, NoDanglingStream
<1> QED  BY <1>1, Invariance, PTL

\* synchronize() calls pw_core_sync() on a core that is still there.
THEOREM SyncOnLiveCoreTheorem == Spec => []SyncOnLiveCore
<1>1. IInv => SyncOnLiveCore
  BY DEF IInv, Live, SyncOnLiveCore
<1> QED  BY <1>1, Invariance, PTL

-----------------------------------------------------------------------------
(* A synchronize() that returns true was a round trip. This is so for a sole *)
(* holder and without recoverable errors of the core: the argument follows   *)
(* the answer to the number that m_sync_seq holds. Such an answer is on the  *)
(* wire once, and while the context is usable only for the synchronize()     *)
(* that waits for it; one that was given up left the context broken, and     *)
(* what makes a context usable again also discards the wire.                 *)

Sole == \E c \in Clients : Clients = {c}
NothingRecoverable == "recoverable" \notin Errors

Expected == [kind : {"done"}, seq : Seqs] \cup [kind : {"fatal", "object"}, seq : {0}]

IsAnswer(m, n) == m.kind = "done" /\ m.seq = n
AnswerIn(w, n) == \E i \in DOMAIN w : IsAnswer(w[i], n)
OneAnswerIn(w, n) == \A i, j \in DOMAIN w : IsAnswer(w[i], n) /\ IsAnswer(w[j], n) => i = j

SyncTypes ==
  /\ wire \in Seq(Expected)
  /\ sync_seq \in Seqs \cup {0} /\ sync_done \in BOOLEAN /\ sync_error \in BOOLEAN
  /\ awaited \in [Clients -> Seqs \cup {0}]
  /\ pc \in [Clients -> PCs] /\ ret \in [Clients -> {"idle", "make", "make again", "publish"}]

\* An answer that is late is never taken for one to come.
AnswerIsOurs(c) ==
  /\ awaited[c] # 0 => pc[c] \in {"wait", "finalize"} /\ awaited[c] = sync_seq
  /\ AnswerIn(wire, sync_seq) =>
       \/ pc[c] \in {"wait", "finalize"} /\ awaited[c] # 0
       \/ /\ state = "broken"
          /\ pc[c] \notin {"clear", "issue", "wait", "finalize", "promote", "publish"}

\* The flags speak of the sync that was issued last.
FlagsAreOurs(c) ==
  /\ pc[c] = "issue" => ~sync_done
  /\ pc[c] \in {"wait", "finalize"} /\ sync_done => awaited[c] = 0
  /\ pc[c] = "finalize" => sync_done \/ sync_error
  /\ pc[c] \in {"issue", "wait", "finalize"} /\ sync_error => state = "broken"

SyncInv ==
  /\ SyncTypes /\ OneAnswerIn(wire, sync_seq)
  /\ \A c \in Clients : AnswerIsOurs(c) /\ FlagsAreOurs(c)

LEMMA EmptyWire == \A n : ~AnswerIn(<<>>, n) /\ OneAnswerIn(<<>>, n) /\ <<>> \in Seq(Expected)
BY DEF AnswerIn, OneAnswerIn

\* What is handled leaves the wire.
LEMMA HandledAnswer ==
  ASSUME NEW w \in Seq(Expected), w # <<>>, NEW n, OneAnswerIn(w, n)
  PROVE  /\ Head(w) \in Expected /\ Tail(w) \in Seq(Expected) /\ OneAnswerIn(Tail(w), n)
         /\ AnswerIn(Tail(w), n) => AnswerIn(w, n)
         /\ IsAnswer(Head(w), n) => AnswerIn(w, n) /\ ~AnswerIn(Tail(w), n)
<1>1. /\ Head(w) = w[1] /\ 1 \in DOMAIN w /\ w[1] \in Expected
      /\ Tail(w) \in Seq(Expected)
      /\ \A i \in DOMAIN Tail(w) : i + 1 \in DOMAIN w /\ i + 1 # 1 /\ Tail(w)[i] = w[i + 1] /\ i \in Nat
  OBVIOUS
<1> QED  BY <1>1 DEF AnswerIn, OneAnswerIn

\* An error comes after what was sent before it, or after a part of that.
LEMMA ErrorSent ==
  ASSUME NEW w \in Seq(Expected), NEW k \in 0..Len(w), NEW m \in Expected, m.kind # "done",
         NEW n, OneAnswerIn(w, n), NEW v, v = w \/ v = SubSeq(w, 1, k)
  PROVE  /\ Append(v, m) \in Seq(Expected) /\ OneAnswerIn(Append(v, m), n)
         /\ AnswerIn(Append(v, m), n) => AnswerIn(w, n)
<1>1. /\ v \in Seq(Expected)
      /\ \A i \in DOMAIN v : i \in DOMAIN w /\ v[i] = w[i]
  OBVIOUS
<1>2. /\ Append(v, m) \in Seq(Expected)
      /\ \A i \in DOMAIN Append(v, m) :
           \/ i \in DOMAIN v /\ Append(v, m)[i] = v[i]
           \/ Append(v, m)[i] = m
  BY <1>1
<1>3. \A i \in DOMAIN Append(v, m) :
        IsAnswer(Append(v, m)[i], n) => i \in DOMAIN w /\ IsAnswer(w[i], n)
  BY <1>1, <1>2 DEF IsAnswer
<1> QED  BY <1>2, <1>3 DEF AnswerIn, OneAnswerIn

\* A number that nothing on the wire mentions is answered once.
LEMMA AnswerSent ==
  ASSUME NEW w \in Seq(Expected), NEW n \in Seqs, \A i \in DOMAIN w : w[i].seq # n
  PROVE  /\ Append(w, [kind |-> "done", seq |-> n]) \in Seq(Expected)
         /\ OneAnswerIn(Append(w, [kind |-> "done", seq |-> n]), n)
         /\ OneAnswerIn(w, n) /\ ~AnswerIn(w, n)
<1> DEFINE m == [kind |-> "done", seq |-> n]
<1>1. m \in Expected
  BY DEF Expected
<1> HIDE DEF m
<1>2. /\ Append(w, m) \in Seq(Expected)
      /\ \A i \in DOMAIN Append(w, m) :
           \/ i \in DOMAIN w /\ Append(w, m)[i] = w[i]
           \/ i = Len(w) + 1
  BY <1>1
<1>3. \A i \in DOMAIN Append(w, m) : IsAnswer(Append(w, m)[i], n) => i = Len(w) + 1
  BY <1>2 DEF IsAnswer
<1>4. \A i \in DOMAIN w : ~IsAnswer(w[i], n)
  BY DEF IsAnswer
<1>5. OneAnswerIn(Append(w, m), n)
  BY <1>3 DEF OneAnswerIn
<1>6. OneAnswerIn(w, n) /\ ~AnswerIn(w, n)
  BY <1>4 DEF OneAnswerIn, AnswerIn
<1> QED  BY <1>2, <1>5, <1>6 DEF m

LEMMA SyncInitially == Init => SyncInv
BY EmptyWire DEF Init, SyncInv, SyncTypes, AnswerIsOurs, FlagsAreOurs, PCs

\* With a sole holder, what is true of one client is true of all.
LEMMA OfAll ==
  ASSUME Sole, NEW c \in Clients, SyncTypes', OneAnswerIn(wire, sync_seq)',
         AnswerIsOurs(c)', FlagsAreOurs(c)'
  PROVE  SyncInv'
<1>1. \A d \in Clients : d = c
  BY DEF Sole
<1> QED  BY <1>1 DEF SyncInv

\* Steps outside of a synchronize() that neither read nor write its fields.
Elsewhere == PCs \ {"clear", "issue", "wait", "finalize", "promote", "publish"}

LEMMA AwayFromSync ==
  ASSUME Sole, SyncInv, NEW c \in Clients, UNCHANGED <<wire, sync_vars, awaited>>,
         state' \in {"broken", state}, SyncTypes', pc[c] \in Elsewhere, pc'[c] \in Elsewhere
  PROVE  SyncInv'
<1>1. AnswerIsOurs(c) /\ FlagsAreOurs(c) /\ OneAnswerIn(wire, sync_seq)
  BY DEF SyncInv
<1>2. UNCHANGED <<sync_seq, sync_done, sync_error>>
  BY DEF sync_vars
<1>3. AnswerIn(wire, sync_seq)' = AnswerIn(wire, sync_seq) /\ OneAnswerIn(wire, sync_seq)'
  BY <1>1, <1>2
<1>4. AnswerIsOurs(c)' /\ FlagsAreOurs(c)'
  BY <1>1, <1>2, <1>3 DEF AnswerIsOurs, FlagsAreOurs, Elsewhere
<1> QED  BY <1>3, <1>4, OfAll

\* The wire is emptied with the connection.
LEMMA Discarded ==
  ASSUME Sole, SyncInv, NEW c \in Clients, wire' = <<>>, UNCHANGED awaited, SyncTypes',
         pc[c] \in Elsewhere, pc'[c] \in Elsewhere
  PROVE  SyncInv'
<1>1. ~AnswerIn(wire, sync_seq)' /\ OneAnswerIn(wire, sync_seq)'
  BY EmptyWire
<1>2. AnswerIsOurs(c)' /\ FlagsAreOurs(c)'
  BY <1>1 DEF SyncInv, AnswerIsOurs, FlagsAreOurs, Elsewhere
<1> QED  BY <1>1, <1>2, OfAll

LEMMA HoldingKeepsSync ==
  ASSUME Sole, SyncInv, NEW c \in Clients, Holding(c)
  PROVE  SyncInv'
<1> USE DEF Elsewhere, PCs, SyncPC, RebuildPC
<1>1. CASE BuildStream(c) \/ DropStream(c)
  <2>1. /\ UNCHANGED <<wire, sync_vars, awaited, pc, ret, state>> /\ pc[c] = "idle"
    BY <1>1 DEF BuildStream, DropStream, conn_vars, net_vars
  <2>2. SyncTypes'
    BY <2>1 DEF SyncInv, SyncTypes, sync_vars
  <2> QED  BY <2>1, <2>2, AwayFromSync
<1>2. CASE EnterRegistry(c) \/ TakeToken(c) \/ BeginRelease(c)
  <2>1. /\ UNCHANGED <<wire, sync_vars, awaited, ret, state>>
        /\ pc[c] \in {"out", "lookup", "idle"}
        /\ \E l \in {"make", "lookup", "idle", "release"} : pc' = [pc EXCEPT ![c] = l]
    BY <1>2 DEF EnterRegistry, TakeToken, BeginRelease, conn_vars, net_vars, call_vars
  <2>2. SyncTypes' /\ pc'[c] \in Elsewhere
    BY <2>1 DEF SyncInv, SyncTypes, sync_vars
  <2> QED  BY <2>1, <2>2, AwayFromSync
<1>3. CASE Make(c)
  <2>1. /\ UNCHANGED <<sync_vars, awaited>> /\ pc[c] = "make"
        /\ \E l \in {"check", "lookup"} : pc' = [pc EXCEPT ![c] = l]
        /\ ret' = [ret EXCEPT ![c] = "make"] \/ ret' = ret
        /\ wire' = <<>> \/ (wire' = wire /\ state' = "broken")
    BY <1>3 DEF Make, Connected, NotConnected, net_vars, call_vars
  <2>2. SyncTypes' /\ pc'[c] \in Elsewhere
    BY <2>1, EmptyWire DEF SyncInv, SyncTypes, sync_vars
  <2> QED  BY <2>1, <2>2, AwayFromSync, Discarded
<1>4. CASE ReleaseToken(c)
  <2>1. /\ UNCHANGED <<awaited, ret>> /\ pc[c] = "release"
        /\ \E l \in {"out", "idle"} : pc' = [pc EXCEPT ![c] = l]
        /\ \/ wire' = <<>> /\ sync_seq' = 0 /\ sync_done' = FALSE /\ sync_error' = FALSE
           \/ UNCHANGED <<wire, sync_vars, state>>
    BY <1>4 DEF ReleaseToken, conn_vars, net_vars, call_vars
  <2>2. SyncTypes' /\ pc'[c] \in Elsewhere
    BY <2>1, EmptyWire DEF SyncInv, SyncTypes, sync_vars
  <2> QED  BY <2>1, <2>2, AwayFromSync, Discarded
<1> QED  BY <1>1, <1>2, <1>3, <1>4 DEF Holding

LEMMA ReconnectingKeepsSync ==
  ASSUME Sole, SyncInv, NEW c \in Clients, Reconnecting(c)
  PROVE  SyncInv'
<1>1. CASE \/ BeginReconnect(c) \/ LockAndCheck(c) \/ CallbackLooksUp(c)
           \/ CallbackTakesToken(c) \/ Invalidated(c)
  <2>1. /\ UNCHANGED <<wire, sync_vars, awaited, ret, state>>
        /\ pc[c] \in {"idle", "reconnect", "invalidate", "relookup"}
        /\ \E l \in {"reconnect", "idle", "invalidate", "relookup", "tear_down"} :
             pc' = [pc EXCEPT ![c] = l]
    BY <1>1 DEF BeginReconnect, LockAndCheck, CallbackLooksUp, CallbackTakesToken, Invalidated,
                conn_vars, net_vars, call_vars
  <2>2. SyncTypes' /\ pc[c] \in Elsewhere /\ pc'[c] \in Elsewhere
    BY <2>1 DEF SyncInv, SyncTypes, sync_vars, Elsewhere, PCs, RebuildPC
  <2> QED  BY <2>1, <2>2, AwayFromSync
<1>2. CASE TearDown(c)
  <2>1. /\ UNCHANGED <<awaited, ret>> /\ pc[c] = "tear_down" /\ pc' = [pc EXCEPT ![c] = "build"]
        /\ wire' = <<>> /\ sync_seq' = 0 /\ sync_done' = FALSE /\ sync_error' = FALSE
    BY <1>2 DEF TearDown, call_vars
  <2>2. SyncTypes' /\ pc[c] \in Elsewhere /\ pc'[c] \in Elsewhere
    BY <2>1, EmptyWire DEF SyncInv, SyncTypes, Elsewhere, PCs, RebuildPC
  <2> QED  BY <2>1, <2>2, Discarded
<1>3. CASE Build(c)
  <2>1. /\ UNCHANGED <<sync_vars, awaited>> /\ pc[c] = "build"
        /\ \E l \in {"check", "idle"} : pc' = [pc EXCEPT ![c] = l]
        /\ ret' = [ret EXCEPT ![c] = "publish"] \/ ret' = ret
        /\ wire' = <<>> \/ (wire' = wire /\ state' = "broken")
    BY <1>3 DEF Build, Connected, NotConnected, net_vars, call_vars
  <2>2. SyncTypes' /\ pc[c] \in Elsewhere /\ pc'[c] \in Elsewhere
    BY <2>1, EmptyWire DEF SyncInv, SyncTypes, sync_vars, Elsewhere, PCs, SyncPC, RebuildPC
  <2> QED  BY <2>1, <2>2, AwayFromSync, Discarded
<1>4. CASE Publish(c)
  <2>1. /\ UNCHANGED <<wire, sync_vars, awaited, ret>> /\ pc[c] = "publish"
        /\ pc' = [pc EXCEPT ![c] = "idle"]
    BY <1>4 DEF Publish, net_vars, call_vars
  <2>2. SyncTypes' /\ pc'[c] = "idle"
    BY <2>1 DEF SyncInv, SyncTypes, sync_vars, PCs
  <2>3. AnswerIsOurs(c) /\ FlagsAreOurs(c) /\ OneAnswerIn(wire, sync_seq)
    BY DEF SyncInv
  <2>4. ~AnswerIn(wire, sync_seq)' /\ OneAnswerIn(wire, sync_seq)'
    BY <2>1, <2>3 DEF AnswerIsOurs, sync_vars
  <2>5. AnswerIsOurs(c)' /\ FlagsAreOurs(c)'
    BY <2>1, <2>2, <2>3, <2>4 DEF AnswerIsOurs, FlagsAreOurs
  <2> QED  BY <2>2, <2>4, <2>5, OfAll
<1> QED  BY <1>1, <1>2, <1>3, <1>4 DEF Reconnecting

\* A synchronize() returns true with its answer handled, or false with the
\* context broken or no answer on the way.
LEMMA ReturnKeepsSync ==
  ASSUME Sole, SyncInv, NEW c \in Clients, pc[c] \in SyncPC, NEW ok \in BOOLEAN, Return(c, ok),
         UNCHANGED <<wire, sync_vars>>,
         AnswerIn(wire, sync_seq) => state' = "broken" /\ ~ok
  PROVE  SyncInv'
<1>1. /\ pc' \in [Clients -> PCs] /\ pc'[c] \in {"idle", "check", "lookup", "publish"}
      /\ pc'[c] = "publish" => ok
      /\ awaited' \in [Clients -> Seqs \cup {0}] /\ awaited'[c] = 0
      /\ ret' \in [Clients -> {"idle", "make", "make again", "publish"}]
  BY DEF Return, SyncInv, SyncTypes, PCs, SyncPC, RebuildPC
<1>2. SyncTypes' /\ OneAnswerIn(wire, sync_seq)'
  BY <1>1 DEF SyncInv, SyncTypes, sync_vars
<1>3. AnswerIn(wire, sync_seq)' => state' = "broken" /\ ~ok
  BY DEF sync_vars
<1>4. AnswerIsOurs(c)' /\ FlagsAreOurs(c)'
  BY <1>1, <1>3 DEF AnswerIsOurs, FlagsAreOurs
<1> QED  BY <1>2, <1>4, OfAll

LEMMA SynchronizingKeepsSync ==
  ASSUME Sole, SyncInv, NEW c \in Clients, Synchronizing(c)
  PROVE  SyncInv'
<1>0. /\ SyncTypes /\ OneAnswerIn(wire, sync_seq) /\ AnswerIsOurs(c) /\ FlagsAreOurs(c)
  BY DEF SyncInv
<1>1. CASE BeginSync(c)
  <2>1. /\ UNCHANGED <<wire, sync_vars, awaited, state>> /\ pc[c] = "idle"
        /\ pc' = [pc EXCEPT ![c] = "check"] /\ ret' = [ret EXCEPT ![c] = "idle"]
    BY <1>1 DEF BeginSync, conn_vars, net_vars, call_vars
  <2>2. SyncTypes' /\ pc[c] \in Elsewhere /\ pc'[c] \in Elsewhere
    BY <2>1, <1>0 DEF SyncTypes, sync_vars, Elsewhere, PCs, SyncPC, RebuildPC
  <2> QED  BY <2>1, <2>2, AwayFromSync
<1>2. CASE Check(c) /\ (state = "broken" \/ core = 0)
  <2>1. /\ pc[c] = "check" /\ Return(c, FALSE) /\ UNCHANGED <<wire, sync_vars, state>>
    BY <1>2 DEF Check, conn_vars, net_vars
  <2>2. AnswerIn(wire, sync_seq) => state' = "broken"
    BY <2>1, <1>0 DEF AnswerIsOurs
  <2> QED  BY <2>1, <2>2, ReturnKeepsSync DEF SyncPC
<1>3. CASE Check(c) /\ ~(state = "broken" \/ core = 0)
  <2>1. /\ pc[c] = "check" /\ pc' = [pc EXCEPT ![c] = "clear"] /\ state # "broken"
        /\ UNCHANGED <<wire, sync_seq, sync_done, sync_error, awaited, state, ret>>
    BY <1>3 DEF Check, conn_vars, sync_vars, net_vars, call_vars
  <2>2. SyncTypes' /\ pc'[c] = "clear"
    BY <2>1, <1>0 DEF SyncTypes, PCs, SyncPC
  <2>3. ~AnswerIn(wire, sync_seq)' /\ OneAnswerIn(wire, sync_seq)'
    BY <2>1, <1>0 DEF AnswerIsOurs
  <2>4. AnswerIsOurs(c)' /\ FlagsAreOurs(c)'
    BY <2>1, <2>2, <2>3, <1>0 DEF AnswerIsOurs, FlagsAreOurs
  <2> QED  BY <2>2, <2>3, <2>4, OfAll
<1>4. CASE ClearFlags(c)
  <2>1. /\ pc[c] = "clear" /\ pc' = [pc EXCEPT ![c] = "issue"]
        /\ sync_done' = FALSE /\ sync_error' = FALSE
        /\ UNCHANGED <<wire, sync_seq, awaited, state, ret>>
    BY <1>4 DEF ClearFlags, conn_vars, net_vars, call_vars
  <2>2. SyncTypes' /\ pc'[c] = "issue"
    BY <2>1, <1>0 DEF SyncTypes, PCs, SyncPC
  <2>3. ~AnswerIn(wire, sync_seq)' /\ OneAnswerIn(wire, sync_seq)'
    BY <2>1, <1>0 DEF AnswerIsOurs
  <2>4. AnswerIsOurs(c)' /\ FlagsAreOurs(c)'
    BY <2>1, <2>2, <2>3, <1>0 DEF AnswerIsOurs, FlagsAreOurs
  <2> QED  BY <2>2, <2>3, <2>4, OfAll
<1>5. CASE Issue(c)
  <2>1. PICK n \in Fresh :
           /\ sync_seq' = n /\ awaited' = [awaited EXCEPT ![c] = n]
           /\ wire' = IF sock = "up" THEN Append(wire, [kind |-> "done", seq |-> n]) ELSE wire
    BY <1>5 DEF Issue
  <2>2. /\ pc[c] = "issue" /\ pc' = [pc EXCEPT ![c] = "wait"]
        /\ UNCHANGED <<sync_done, sync_error, state, ret>>
    BY <1>5 DEF Issue, conn_vars
  <2>3. n \in Seqs /\ n # 0 /\ \A i \in DOMAIN wire : wire[i].seq # n
    BY BoundsAssumption DEF Fresh
  <2>4. wire \in Seq(Expected)
    BY <1>0 DEF SyncTypes
  <2>5. /\ Append(wire, [kind |-> "done", seq |-> n]) \in Seq(Expected)
        /\ OneAnswerIn(Append(wire, [kind |-> "done", seq |-> n]), n)
        /\ OneAnswerIn(wire, n)
    BY <2>3, <2>4, AnswerSent
  <2>6. wire' \in Seq(Expected) /\ OneAnswerIn(wire', sync_seq')
    BY <2>1, <2>4, <2>5
  <2>7. SyncTypes' /\ pc'[c] = "wait" /\ awaited'[c] = sync_seq' /\ awaited'[c] # 0
    BY <2>1, <2>2, <2>3, <2>6, <1>0 DEF SyncTypes, PCs, SyncPC
  <2>8. AnswerIsOurs(c)' /\ FlagsAreOurs(c)'
    BY <2>2, <2>7, <1>0 DEF AnswerIsOurs, FlagsAreOurs
  <2> QED  BY <2>6, <2>7, <2>8, OfAll
<1>6. CASE Woken(c)
  <2>1. /\ pc[c] = "wait" /\ pc' = [pc EXCEPT ![c] = "finalize"] /\ (sync_done \/ sync_error)
        /\ UNCHANGED <<wire, sync_seq, sync_done, sync_error, awaited, state, ret>>
    BY <1>6 DEF Woken, conn_vars, sync_vars, net_vars, call_vars
  <2>2. SyncTypes' /\ pc'[c] = "finalize"
    BY <2>1, <1>0 DEF SyncTypes, PCs, SyncPC
  <2>3. AnswerIn(wire, sync_seq)' = AnswerIn(wire, sync_seq) /\ OneAnswerIn(wire, sync_seq)'
    BY <2>1, <1>0
  <2>4. AnswerIsOurs(c)' /\ FlagsAreOurs(c)'
    BY <2>1, <2>2, <2>3, <1>0 DEF AnswerIsOurs, FlagsAreOurs
  <2> QED  BY <2>2, <2>3, <2>4, OfAll
<1>7. CASE TimedOut(c)
  <2>1. pc[c] = "wait" /\ Return(c, FALSE) /\ UNCHANGED <<wire, sync_vars>> /\ state' = "broken"
    BY <1>7 DEF TimedOut, net_vars
  <2> QED  BY <2>1, ReturnKeepsSync DEF SyncPC
<1>8. CASE Finalize(c) /\ state = "connecting" /\ ~sync_error
  <2>1. /\ pc[c] = "finalize" /\ pc' = [pc EXCEPT ![c] = "promote"] /\ ~sync_error
        /\ UNCHANGED <<wire, sync_seq, sync_done, sync_error, awaited, state, ret>>
    BY <1>8 DEF Finalize, conn_vars, sync_vars, net_vars, call_vars
  <2>2. SyncTypes' /\ pc'[c] = "promote"
    BY <2>1, <1>0 DEF SyncTypes, PCs, SyncPC
  <2>3. awaited[c] = 0
    BY <2>1, <1>0 DEF FlagsAreOurs
  <2>4. ~AnswerIn(wire, sync_seq)' /\ OneAnswerIn(wire, sync_seq)'
    BY <2>1, <2>3, <1>0 DEF AnswerIsOurs
  <2>5. AnswerIsOurs(c)' /\ FlagsAreOurs(c)'
    BY <2>1, <2>2, <2>3, <2>4 DEF AnswerIsOurs, FlagsAreOurs
  <2> QED  BY <2>2, <2>4, <2>5, OfAll
<1>9. CASE Finalize(c) /\ ~(state = "connecting" /\ ~sync_error)
  <2> DEFINE ok == ~sync_error
  <2>1. /\ pc[c] = "finalize" /\ Return(c, ok) /\ UNCHANGED <<wire, sync_vars, state>>
    BY <1>9 DEF Finalize, conn_vars, net_vars
  <2>2. AnswerIn(wire, sync_seq) => state' = "broken" /\ ~ok
    BY <2>1, <1>0 DEF AnswerIsOurs, FlagsAreOurs
  <2>3. ok \in BOOLEAN
    OBVIOUS
  <2> HIDE DEF ok
  <2> QED  BY <2>1, <2>2, <2>3, ReturnKeepsSync DEF SyncPC
<1>10. CASE Promote(c)
  <2>1. pc[c] = "promote" /\ Return(c, TRUE) /\ UNCHANGED <<wire, sync_vars>>
    BY <1>10 DEF Promote, net_vars
  <2>2. ~AnswerIn(wire, sync_seq)
    BY <2>1, <1>0 DEF AnswerIsOurs
  <2> QED  BY <2>1, <2>2, ReturnKeepsSync DEF SyncPC
<1> QED  BY <1>1, <1>2, <1>3, <1>4, <1>5, <1>6, <1>7, <1>8, <1>9, <1>10 DEF Synchronizing

LEMMA WorkerKeepsSync ==
  ASSUME Sole, NothingRecoverable, SyncInv, NEW c \in Clients,
         OnCoreDone \/ OnCoreError \/ SendError
  PROVE  SyncInv'
<1>0. /\ SyncTypes /\ OneAnswerIn(wire, sync_seq) /\ AnswerIsOurs(c) /\ FlagsAreOurs(c)
      /\ wire \in Seq(Expected)
  BY DEF SyncInv, SyncTypes
<1>1. CASE OnCoreDone
  <2>1. /\ wire # <<>> /\ wire' = Tail(wire) /\ Head(wire).kind = "done"
        /\ sync_done' = (sync_done \/ Head(wire).seq = sync_seq)
        /\ awaited' = [d \in Clients |-> IF awaited[d] = Head(wire).seq THEN 0 ELSE awaited[d]]
        /\ UNCHANGED <<sync_seq, sync_error, state, pc, ret>>
    BY <1>1 DEF OnCoreDone, conn_vars
  <2>2. /\ Head(wire) \in Expected /\ Tail(wire) \in Seq(Expected)
        /\ OneAnswerIn(Tail(wire), sync_seq)
        /\ AnswerIn(Tail(wire), sync_seq) => AnswerIn(wire, sync_seq)
        /\ IsAnswer(Head(wire), sync_seq) =>
             AnswerIn(wire, sync_seq) /\ ~AnswerIn(Tail(wire), sync_seq)
    BY <1>0, <2>1, HandledAnswer
  <2>3. Head(wire).seq \in Seqs /\ Head(wire).seq # 0
    BY <2>1, <2>2, BoundsAssumption DEF Expected
  <2>4. SyncTypes' /\ OneAnswerIn(wire', sync_seq')
    BY <1>0, <2>1, <2>2 DEF SyncTypes
  <2>5. AnswerIn(wire', sync_seq') => AnswerIn(wire, sync_seq) /\ Head(wire).seq # sync_seq
    BY <2>1, <2>2 DEF IsAnswer
  <2>6. Head(wire).seq = sync_seq => AnswerIn(wire, sync_seq)
    BY <2>1, <2>2 DEF IsAnswer
  <2>7. awaited'[c] = IF awaited[c] = Head(wire).seq THEN 0 ELSE awaited[c]
    BY <2>1
  <2>8. AnswerIsOurs(c)'
    BY <1>0, <2>1, <2>5, <2>7 DEF AnswerIsOurs
  <2>9. FlagsAreOurs(c)'
    BY <1>0, <2>1, <2>6, <2>7 DEF AnswerIsOurs, FlagsAreOurs
  <2> QED  BY <2>4, <2>8, <2>9, OfAll
<1>2. CASE OnCoreError
  <2>1. /\ wire # <<>> /\ wire' = Tail(wire)
        /\ sync_error' = (sync_error \/ Head(wire).kind # "object")
        /\ state' = IF Head(wire).kind = "fatal" THEN "broken" ELSE state
        /\ Head(wire).kind \in ErrorKinds
        /\ UNCHANGED <<sync_seq, sync_done, awaited, pc, ret>>
    BY <1>2 DEF OnCoreError, call_vars
  <2>2. /\ Head(wire) \in Expected /\ Tail(wire) \in Seq(Expected)
        /\ OneAnswerIn(Tail(wire), sync_seq)
        /\ AnswerIn(Tail(wire), sync_seq) => AnswerIn(wire, sync_seq)
    BY <1>0, <2>1, HandledAnswer
  <2>3. Head(wire).kind \in {"fatal", "object"}
    BY <2>1, <2>2 DEF Expected, ErrorKinds
  <2>4. SyncTypes' /\ OneAnswerIn(wire', sync_seq')
    BY <1>0, <2>1, <2>2 DEF SyncTypes
  <2>5. AnswerIn(wire', sync_seq') => AnswerIn(wire, sync_seq)
    BY <2>1, <2>2
  <2>6. AnswerIsOurs(c)'
    BY <1>0, <2>1, <2>5 DEF AnswerIsOurs
  <2>7. FlagsAreOurs(c)'
    BY <1>0, <2>1, <2>3 DEF FlagsAreOurs
  <2> QED  BY <2>4, <2>6, <2>7, OfAll
<1>3. CASE SendError
  <2>1. PICK k \in Errors :
          \/ /\ k = "fatal"
             /\ \E n \in 0..Len(wire) :
                  wire' = Append(SubSeq(wire, 1, n), [kind |-> k, seq |-> 0])
          \/ wire' = Append(wire, [kind |-> k, seq |-> 0])
    BY <1>3 DEF SendError
  <2>2. UNCHANGED <<sync_seq, sync_done, sync_error, state, awaited, pc, ret>>
    BY <1>3 DEF SendError, conn_vars, sync_vars, call_vars
  <2> DEFINE m == [kind |-> k, seq |-> 0]
  <2>3. m \in Expected /\ m.kind # "done"
    BY ErrorsAssumption DEF NothingRecoverable, ErrorKinds, Expected
  <2>4. \E n \in 0..Len(wire) : \E v : (v = wire \/ v = SubSeq(wire, 1, n)) /\ wire' = Append(v, m)
    <3>1. 0 \in 0..Len(wire)
      BY <1>0
    <3> QED  BY <2>1, <3>1
  <2> HIDE DEF m
  <2>5. PICK n \in 0..Len(wire) : \E v : (v = wire \/ v = SubSeq(wire, 1, n)) /\ wire' = Append(v, m)
    BY <2>4
  <2>6. /\ wire' \in Seq(Expected) /\ OneAnswerIn(wire', sync_seq)
        /\ AnswerIn(wire', sync_seq) => AnswerIn(wire, sync_seq)
    <3>1. PICK v : (v = wire \/ v = SubSeq(wire, 1, n)) /\ wire' = Append(v, m)
      BY <2>5
    <3> QED  BY <1>0, <2>3, <3>1, ErrorSent
  <2>7. SyncTypes' /\ OneAnswerIn(wire', sync_seq')
    BY <1>0, <2>2, <2>6 DEF SyncTypes
  <2>8. AnswerIsOurs(c)' /\ FlagsAreOurs(c)'
    BY <1>0, <2>2, <2>6 DEF AnswerIsOurs, FlagsAreOurs
  <2> QED  BY <2>7, <2>8, OfAll
<1> QED  BY <1>1, <1>2, <1>3

LEMMA StepKeepsSync ==
  ASSUME Sole, NothingRecoverable, SyncInv, [Next]_vars
  PROVE  SyncInv'
<1>1. CASE UNCHANGED vars
  <2>1. UNCHANGED <<state, wire, sync_seq, sync_done, sync_error, awaited, pc, ret>>
    BY <1>1 DEF vars, conn_vars, sync_vars, net_vars, call_vars
  <2>2. AnswerIn(wire, sync_seq)' = AnswerIn(wire, sync_seq) /\ OneAnswerIn(wire, sync_seq)'
    BY <2>1 DEF SyncInv
  <2> QED  BY <2>1, <2>2 DEF SyncInv, SyncTypes, AnswerIsOurs, FlagsAreOurs
<1>2. CASE ~UNCHANGED vars
  <2>1. PICK c \in Clients : TRUE
    BY DEF Sole
  <2> QED
    BY <1>2, <2>1, HoldingKeepsSync, SynchronizingKeepsSync, ReconnectingKeepsSync,
       WorkerKeepsSync DEF Next
<1> QED  BY <1>1, <1>2

\* When a synchronize() of a sole holder is about to return true, the worker has
\* handled the daemon's answer to it: the one it issued, not one of an earlier
\* call that was given up.
THEOREM SyncMeansRoundTripTheorem ==
  ASSUME Sole, NothingRecoverable
  PROVE  Spec => []SyncMeansRoundTrip
<1>1. SyncInv /\ [Next]_vars => SyncInv'
  BY StepKeepsSync
<1>2. SyncInv => SyncMeansRoundTrip
  BY DEF SyncInv, AnswerIsOurs, FlagsAreOurs, SyncMeansRoundTrip
<1> QED  BY <1>1, <1>2, SyncInitially, PTL DEF Spec
=============================================================================
