------------------------------ MODULE PwContext ------------------------------
(***************************************************************************)
(* The connection of a shared PipeWire context: shared_context() and its   *)
(* holders, synchronize(), reconnect() and the core events that decide     *)
(* whether the connection is alive (backends/linux/pipewire/context.hpp,   *)
(* context.cpp).                                                           *)
(*                                                                         *)
(* Every client is one application thread that owns the holders it takes   *)
(* and the pw_filter / pw_stream it builds on the core. The worker is the  *)
(* thread of the pw_thread_loop; it handles what the daemon sends in       *)
(* order. The daemon may close the socket at any time, may be away when a  *)
(* connection is built, and answers a sync as long as the socket is up.    *)
(***************************************************************************)
EXTENDS Naturals, Sequences, FiniteSets

CONSTANTS
  Clients,    \* application threads
  None,       \* no client
  Errors,     \* the kinds of pw_core_events::error the daemon sends
  Seqs,       \* sync sequence numbers; only their equality matters
  MaxCores,   \* bound: connections built for one context
  MaxErrors,  \* bound: errors sent on one context
  CallbacksTakeHolders  \* whether on_invalidated subscribers call shared_context()

ErrorKinds == {"fatal", "recoverable", "object"}

ASSUME ClientsAssumption == None \notin Clients
ASSUME ErrorsAssumption == Errors \subseteq ErrorKinds
ASSUME BoundsAssumption ==
  /\ Seqs \subseteq Nat \ {0}
  /\ MaxCores \in Nat \ {0}
  /\ MaxErrors \in Nat
  /\ CallbacksTakeHolders \in BOOLEAN

VARIABLES
  state,       \* m_state, or "absent" while no context exists
  generation,  \* m_generation
  core,        \* m_core, m_loop and m_context: 0 when null, else which ones
  cores,       \* connections built so far for this context
  stamped,     \* history: the core the current generation was given to
  sync_seq, sync_done, sync_error,   \* m_sync_*
  wire,        \* what the daemon has sent and the worker has not handled
  sock,        \* "up" or "dead"
  errors,      \* errors sent so far
  dead,        \* history: the worker has handled a fatal error of this core
  tokens,      \* tokens[c]: holder_tokens c owns; their sum is m_shared_holders
  holders_mtx, \* the client that holds m_holders_mtx, or None
  registry_mtx,\* the client inside shared_context(), or None
  pc, ret,     \* where each client is; what its synchronize() returns to
  awaited,     \* history: the sync c issued, until the worker handles its answer
  built        \* built[c]: the core c's filter or stream is built on, or 0

conn_vars == <<state, generation, core, cores, stamped>>
sync_vars == <<sync_seq, sync_done, sync_error>>
net_vars == <<wire, sock, errors, dead>>
lock_vars == <<tokens, holders_mtx, registry_mtx>>
call_vars == <<awaited, built>>
vars == <<conn_vars, sync_vars, net_vars, lock_vars, pc, ret, call_vars>>

SyncPC == {"check", "clear", "issue", "wait", "finalize", "promote"}
RebuildPC == {"invalidate", "relookup", "tear_down", "build", "publish"}
PCs == {"out", "lookup", "make", "idle", "reconnect", "release"} \cup SyncPC \cup RebuildPC
Messages == [kind : {"done"}, seq : Seqs] \cup [kind : ErrorKinds, seq : {0}]

TypeOK ==
  /\ state \in {"absent", "connecting", "connected", "broken"}
  /\ generation \in 0..MaxCores /\ core \in 0..MaxCores
  /\ cores \in 0..MaxCores /\ stamped \in 0..MaxCores
  /\ sync_seq \in Seqs \cup {0} /\ sync_done \in BOOLEAN /\ sync_error \in BOOLEAN
  /\ wire \in Seq(Messages) /\ sock \in {"up", "dead"}
  /\ errors \in 0..MaxErrors /\ dead \in BOOLEAN
  /\ tokens \in [Clients -> 0..2]
  /\ holders_mtx \in Clients \cup {None} /\ registry_mtx \in Clients \cup {None}
  /\ pc \in [Clients -> PCs] /\ ret \in [Clients -> {"idle", "make", "make again", "publish"}]
  /\ awaited \in [Clients -> Seqs \cup {0}]
  /\ built \in [Clients -> 0..MaxCores]

Goto(c, label) == pc' = [pc EXCEPT ![c] = label]
At(c, label) == pc[c] = label

Init ==
  /\ state = "absent" /\ generation = 0 /\ core = 0 /\ cores = 0 /\ stamped = 0
  /\ sync_seq = 0 /\ sync_done = FALSE /\ sync_error = FALSE
  /\ wire = <<>> /\ sock = "dead" /\ errors = 0 /\ dead = FALSE
  /\ tokens = [c \in Clients |-> 0] /\ holders_mtx = None /\ registry_mtx = None
  /\ pc = [c \in Clients |-> "out"] /\ ret = [c \in Clients |-> "idle"]
  /\ awaited = [c \in Clients |-> 0] /\ built = [c \in Clients |-> 0]

-----------------------------------------------------------------------------
(* shared_context(): one lock around lookup and creation; a holder token   *)
(* is counted under m_holders_mtx.                                         *)

EnterRegistry(c) ==
  /\ At(c, "out") /\ registry_mtx = None
  /\ registry_mtx' = c
  /\ Goto(c, IF state = "absent" THEN "make" ELSE "lookup")
  /\ UNCHANGED <<conn_vars, sync_vars, net_vars, tokens, holders_mtx, ret, call_vars>>

\* build_connection(): no daemon leaves the handles null, else a new core
\* is listened to and the worker starts.
Connected ==
  /\ cores < MaxCores
  /\ core' = cores + 1 /\ cores' = cores + 1
  /\ sock' = "up" /\ state' = "connecting"
  /\ wire' = <<>> /\ dead' = FALSE /\ UNCHANGED errors
NotConnected ==
  /\ state' = "broken"
  /\ UNCHANGED <<core, cores, net_vars>>

\* context::make(): a connected context is synchronised twice before anyone
\* gets it; one that could not connect is handed out broken.
Make(c) ==
  /\ At(c, "make")
  /\ \/ Connected /\ stamped' = core' /\ Goto(c, "check")
        /\ ret' = [ret EXCEPT ![c] = "make"]
     \/ NotConnected /\ Goto(c, "lookup") /\ UNCHANGED <<stamped, ret>>
  /\ UNCHANGED <<generation, sync_vars, lock_vars, call_vars>>

\* Mutated form of TakeToken: m_shared_holders is incremented without the lock.
TakeTokenUnlocked(c) ==
  /\ At(c, "lookup")
  /\ tokens' = [tokens EXCEPT ![c] = @ + 1]
  /\ registry_mtx' = None
  /\ Goto(c, "idle")
  /\ UNCHANGED <<conn_vars, sync_vars, net_vars, holders_mtx, ret, call_vars>>

\* make_shared_holder(): waits for a reconnect() in progress to end.
TakeToken(c) ==
  /\ At(c, "lookup") /\ holders_mtx = None
  /\ tokens' = [tokens EXCEPT ![c] = @ + 1]
  /\ registry_mtx' = None
  /\ Goto(c, "idle")
  /\ UNCHANGED <<conn_vars, sync_vars, net_vars, holders_mtx, ret, call_vars>>

\* A client destroys what it built before it drops its holder.
BeginRelease(c) ==
  /\ At(c, "idle") /\ built[c] = 0
  /\ Goto(c, "release")
  /\ UNCHANGED <<conn_vars, sync_vars, net_vars, lock_vars, ret, call_vars>>

\* Nobody else refers to the context: no token, and no pointer taken from
\* the weak reference.
LastReference(c) == \A d \in Clients \ {c} : tokens[d] = 0 /\ ~At(d, "lookup")

\* ~holder_token(): with the last reference the context is destroyed, and the
\* next shared_context() makes a new one.
ReleaseToken(c) ==
  /\ At(c, "release") /\ holders_mtx = None
  /\ tokens' = [tokens EXCEPT ![c] = @ - 1]
  /\ Goto(c, IF tokens[c] = 1 THEN "out" ELSE "idle")
  /\ IF tokens[c] = 1 /\ LastReference(c)
     THEN /\ state' = "absent" /\ core' = 0 /\ cores' = 0 /\ generation' = 0 /\ stamped' = 0
          /\ sync_seq' = 0 /\ sync_done' = FALSE /\ sync_error' = FALSE
          /\ wire' = <<>> /\ sock' = "dead" /\ errors' = 0 /\ dead' = FALSE
     ELSE UNCHANGED <<conn_vars, sync_vars, net_vars>>
  /\ UNCHANGED <<holders_mtx, registry_mtx, ret, call_vars>>

\* A client with a usable context builds a filter or stream on its core ...
BuildStream(c) ==
  /\ At(c, "idle") /\ built[c] = 0 /\ state = "connected" /\ core # 0
  /\ built' = [built EXCEPT ![c] = core]
  /\ UNCHANGED <<conn_vars, sync_vars, net_vars, lock_vars, pc, ret, awaited>>

\* ... and destroys it.
DropStream(c) ==
  /\ At(c, "idle") /\ built[c] # 0
  /\ built' = [built EXCEPT ![c] = 0]
  /\ UNCHANGED <<conn_vars, sync_vars, net_vars, lock_vars, pc, ret, awaited>>

-----------------------------------------------------------------------------
(* synchronize() from a thread that is not the worker: do_sync_thread(),   *)
(* finalize_sync().                                                        *)

BeginSync(c) ==
  /\ At(c, "idle")
  /\ Goto(c, "check")
  /\ ret' = [ret EXCEPT ![c] = "idle"]
  /\ UNCHANGED <<conn_vars, sync_vars, net_vars, lock_vars, call_vars>>

\* Where a synchronize() that returns `ok` leads: back to its caller, to the
\* second pass of make(), to the holder token, or on with reconnect().
Return(c, ok) ==
  /\ awaited' = [awaited EXCEPT ![c] = 0]
  /\ ret' = [ret EXCEPT ![c] = IF @ = "make" THEN "make again" ELSE @]
  /\ Goto(c, CASE ret[c] = "idle" -> "idle"
               [] ret[c] = "make" -> "check"
               [] ret[c] = "make again" -> "lookup"
               [] OTHER -> IF ok THEN "publish" ELSE "idle")
  /\ holders_mtx' = IF ret[c] = "publish" /\ ~ok THEN None ELSE holders_mtx
  /\ UNCHANGED <<tokens, registry_mtx, built>>

\* A broken context, or one without handles, is refused at once.
Check(c) ==
  /\ At(c, "check")
  /\ IF state = "broken" \/ core = 0
     THEN Return(c, FALSE)
     ELSE /\ Goto(c, "clear")
          /\ UNCHANGED <<lock_vars, ret, call_vars>>
  /\ UNCHANGED <<conn_vars, sync_vars, net_vars>>

\* Mutated form of ClearFlags: m_sync_done is not reset.
ClearErrorOnly(c) ==
  /\ At(c, "clear")
  /\ sync_error' = FALSE
  /\ Goto(c, "issue")
  /\ UNCHANGED <<conn_vars, sync_seq, sync_done, net_vars, lock_vars, ret, call_vars>>

\* The two flags are stored one after the other; nothing tells the steps apart.
ClearFlags(c) ==
  /\ At(c, "clear")
  /\ sync_done' = FALSE /\ sync_error' = FALSE
  /\ Goto(c, "issue")
  /\ UNCHANGED <<conn_vars, sync_seq, net_vars, lock_vars, ret, call_vars>>

\* A number no pending answer, client or m_sync_seq mentions.
Fresh == Seqs \ ({sync_seq} \cup {awaited[c] : c \in Clients}
                 \cup {wire[i].seq : i \in DOMAIN wire})

\* pw_core_sync() and the store of m_sync_seq, under the loop lock; the
\* daemon answers while the socket is up.
Issue(c) ==
  /\ At(c, "issue")
  /\ \E n \in Fresh :
       /\ \A m \in Fresh : n <= m
       /\ sync_seq' = n
       /\ awaited' = [awaited EXCEPT ![c] = n]
       /\ wire' = IF sock = "up" THEN Append(wire, [kind |-> "done", seq |-> n]) ELSE wire
  /\ Goto(c, "wait")
  /\ UNCHANGED <<conn_vars, sync_done, sync_error, sock, errors, dead, lock_vars, ret, built>>

Woken(c) ==
  /\ At(c, "wait") /\ (sync_done \/ sync_error)
  /\ Goto(c, "finalize")
  /\ UNCHANGED <<conn_vars, sync_vars, net_vars, lock_vars, ret, call_vars>>

\* Mutated form of TimedOut: the wait starts over.
WaitAgain(c) ==
  /\ At(c, "wait") /\ ~sync_done /\ ~sync_error
  /\ UNCHANGED vars

\* Nothing came before the deadline: the context is given up.
TimedOut(c) ==
  /\ At(c, "wait") /\ ~sync_done /\ ~sync_error
  /\ state' = "broken"
  /\ Return(c, FALSE)
  /\ UNCHANGED <<generation, core, cores, stamped, sync_vars, net_vars>>

\* finalize_sync(): the state is read here and stored in a step of its own.
Finalize(c) ==
  /\ At(c, "finalize")
  /\ IF state = "connecting" /\ ~sync_error
     THEN Goto(c, "promote") /\ UNCHANGED <<lock_vars, ret, call_vars>>
     ELSE Return(c, ~sync_error)
  /\ UNCHANGED <<conn_vars, sync_vars, net_vars>>

Promote(c) ==
  /\ At(c, "promote")
  /\ state' = "connected"
  /\ Return(c, TRUE)
  /\ UNCHANGED <<generation, core, cores, stamped, sync_vars, net_vars>>

-----------------------------------------------------------------------------
(* reconnect(), under m_holders_mtx from its first check to its return.    *)

BeginReconnect(c) ==
  /\ At(c, "idle") /\ cores < MaxCores
  /\ Goto(c, "reconnect")
  /\ UNCHANGED <<conn_vars, sync_vars, net_vars, lock_vars, ret, call_vars>>

\* Mutated form of Shared: m_shared_holders > 2.
SharedOffByOne ==
  \E c, d \in Clients : c # d /\ tokens[c] + tokens[d] > 2

\* Only a sole holder may go on; on_invalidated makes it drop what it built.
Shared == \E c, d \in Clients : tokens[c] > 1 \/ (c # d /\ tokens[c] > 0 /\ tokens[d] > 0)

\* Mutated form of LockAndCheck: dispatch_invalidated() comes too late.
LockAndCheckSilently(c) ==
  /\ At(c, "reconnect") /\ holders_mtx = None
  /\ IF Shared
     THEN Goto(c, "idle") /\ UNCHANGED <<holders_mtx, built>>
     ELSE /\ Goto(c, "invalidate")
          /\ holders_mtx' = c
          /\ UNCHANGED built
  /\ UNCHANGED <<conn_vars, sync_vars, net_vars, tokens, registry_mtx, ret, awaited>>

LockAndCheck(c) ==
  /\ At(c, "reconnect") /\ holders_mtx = None
  /\ IF Shared
     THEN Goto(c, "idle") /\ UNCHANGED <<holders_mtx, built>>
     ELSE /\ Goto(c, "invalidate")
          /\ holders_mtx' = c
          /\ built' = [built EXCEPT ![c] = 0]
  /\ UNCHANGED <<conn_vars, sync_vars, net_vars, tokens, registry_mtx, ret, awaited>>

\* An on_invalidated subscriber may take a further holder: m_holders_mtx is
\* recursive, the lock of shared_context() is not yet held.
CallbackLooksUp(c) ==
  /\ CallbacksTakeHolders
  /\ At(c, "invalidate") /\ tokens[c] = 1
  /\ Goto(c, "relookup")
  /\ UNCHANGED <<conn_vars, sync_vars, net_vars, lock_vars, ret, call_vars>>

CallbackTakesToken(c) ==
  /\ At(c, "relookup") /\ registry_mtx = None
  /\ tokens' = [tokens EXCEPT ![c] = @ + 1]
  /\ Goto(c, "tear_down")
  /\ UNCHANGED <<conn_vars, sync_vars, net_vars, holders_mtx, registry_mtx, ret, call_vars>>

Invalidated(c) ==
  /\ At(c, "invalidate")
  /\ Goto(c, "tear_down")
  /\ UNCHANGED <<conn_vars, sync_vars, net_vars, lock_vars, ret, call_vars>>

\* tear_down(false): the worker is joined, every handle freed, the sync
\* fields reset.
TearDown(c) ==
  /\ At(c, "tear_down")
  /\ core' = 0 /\ state' = "connecting"
  /\ sync_seq' = 0 /\ sync_done' = FALSE /\ sync_error' = FALSE
  /\ wire' = <<>> /\ sock' = "dead" /\ dead' = FALSE
  /\ Goto(c, "build")
  /\ UNCHANGED <<generation, cores, stamped, errors, lock_vars, ret, call_vars>>

Build(c) ==
  /\ At(c, "build")
  /\ \/ Connected /\ Goto(c, "check")
        /\ ret' = [ret EXCEPT ![c] = "publish"]
        /\ UNCHANGED holders_mtx
     \/ NotConnected /\ Goto(c, "idle") /\ holders_mtx' = None /\ UNCHANGED ret
  /\ UNCHANGED <<generation, stamped, sync_vars, tokens, registry_mtx, call_vars>>

Publish(c) ==
  /\ At(c, "publish")
  /\ state' = "connected"
  /\ generation' = generation + 1 /\ stamped' = core
  /\ holders_mtx' = None
  /\ Goto(c, "idle")
  /\ UNCHANGED <<core, cores, sync_vars, net_vars, tokens, registry_mtx, ret, call_vars>>

-----------------------------------------------------------------------------
(* The worker and the daemon.                                              *)

OnCoreDone ==
  /\ core # 0 /\ wire # <<>> /\ Head(wire).kind = "done"
  /\ wire' = Tail(wire)
  /\ sync_done' = (sync_done \/ Head(wire).seq = sync_seq)
  /\ awaited' = [c \in Clients |-> IF awaited[c] = Head(wire).seq THEN 0 ELSE awaited[c]]
  /\ UNCHANGED <<conn_vars, sync_seq, sync_error, sock, errors, dead, lock_vars, pc, ret,
                 built>>

\* An error of another object than the core is none of the context's business.
OnCoreError ==
  /\ core # 0 /\ wire # <<>> /\ Head(wire).kind \in ErrorKinds
  /\ wire' = Tail(wire)
  /\ sync_error' = (sync_error \/ Head(wire).kind # "object")
  /\ state' = IF Head(wire).kind = "fatal" THEN "broken" ELSE state
  /\ dead' = (dead \/ Head(wire).kind = "fatal")
  /\ UNCHANGED <<generation, core, cores, stamped, sync_seq, sync_done, sock, errors,
                 lock_vars, pc, ret, call_vars>>

\* The daemon reports an error; a fatal one is the socket going away, with
\* any of the answers still on it.
SendError ==
  /\ sock = "up" /\ errors < MaxErrors
  /\ errors' = errors + 1
  /\ \E k \in Errors :
       IF k = "fatal"
       THEN /\ sock' = "dead"
            /\ \E n \in 0..Len(wire) :
                 wire' = Append(SubSeq(wire, 1, n), [kind |-> k, seq |-> 0])
       ELSE wire' = Append(wire, [kind |-> k, seq |-> 0]) /\ UNCHANGED sock
  /\ UNCHANGED <<conn_vars, sync_vars, dead, lock_vars, pc, ret, call_vars>>

-----------------------------------------------------------------------------

Holding(c) ==
  \/ EnterRegistry(c) \/ Make(c) \/ TakeToken(c)
  \/ BeginRelease(c) \/ ReleaseToken(c)
  \/ BuildStream(c) \/ DropStream(c)

Synchronizing(c) ==
  \/ BeginSync(c) \/ Check(c) \/ ClearFlags(c) \/ Issue(c)
  \/ Woken(c) \/ TimedOut(c) \/ Finalize(c) \/ Promote(c)

Reconnecting(c) ==
  \/ BeginReconnect(c) \/ LockAndCheck(c)
  \/ CallbackLooksUp(c) \/ CallbackTakesToken(c) \/ Invalidated(c)
  \/ TearDown(c) \/ Build(c) \/ Publish(c)

Next ==
  \/ \E c \in Clients : Holding(c) \/ Synchronizing(c) \/ Reconnecting(c)
  \/ OnCoreDone \/ OnCoreError \/ SendError

Spec == Init /\ [][Next]_vars

\* Threads that have entered a call run; a wait on the condition variable ends
\* at its deadline; a mutex that is free again and again is obtained in the
\* end. No thread has to enter a call, and the daemon has to do nothing.
Fairness ==
  \A c \in Clients :
    /\ WF_vars(Make(c)) /\ SF_vars(TakeToken(c)) /\ SF_vars(ReleaseToken(c))
    /\ WF_vars(Check(c) \/ ClearFlags(c) \/ Issue(c) \/ Woken(c)
               \/ TimedOut(c) \/ Finalize(c) \/ Promote(c))
    /\ WF_vars(LockAndCheck(c) \/ Invalidated(c) \/ CallbackTakesToken(c)
               \/ TearDown(c) \/ Build(c) \/ Publish(c))

FairSpec == Spec /\ Fairness

-----------------------------------------------------------------------------
(* Properties.                                                             *)

\* A filter or stream never outlives the core it was built on: a reconnect()
\* of one holder leaves the others' handles alone, and its own are dropped in
\* on_invalidated (tests/integration/pipewire_context_shared_teardown.cpp).
NoDanglingStream == \A c \in Clients : built[c] # 0 => built[c] = core

\* From its guard to its return, a reconnect() is alone: no other client holds
\* the context or is inside a synchronize() on the handles being replaced.
ReconnectExclusive ==
  \A c, d \in Clients : holders_mtx = c /\ d # c => tokens[d] = 0 /\ pc[d] \notin SyncPC

\* pw_core_sync() is called on the core that synchronize() found non-null
\* two steps earlier, without a lock in between.
SyncOnLiveCore ==
  \A c \in Clients : pc[c] \in {"clear", "issue"} => core # 0

\* A synchronize() about to return true saw the daemon answer it: everything the
\* daemon sent before has been handled (the two passes of make() rely on it).
SyncMeansRoundTrip ==
  \A c \in Clients : At(c, "promote") \/ (At(c, "finalize") /\ ~sync_error) => awaited[c] = 0

\* A connected context that nobody is reconnecting carries a generation of
\* its own for every core, so a stale handle can be told by the generation.
GenerationTracksCore == state = "connected" /\ holders_mtx = None => stamped = core

\* on_core_error() alone decides whether the connection is lost
\* (context.hpp:1053), so a fatal error leaves it broken until a rebuild.
FatalErrorSticks == dead => state = "broken"

\* An on_invalidated subscriber may acquire a holder from inside reconnect()
\* (context.hpp:560): it never waits for a thread that waits for reconnect().
NoCircularWait ==
  ~ \E c, d \in Clients : /\ pc[c] = "relookup" /\ holders_mtx = c
                         /\ pc[d] = "lookup" /\ registry_mtx = d

\* Every call returns: shared_context(), synchronize(), reconnect() and the
\* release of a holder, whatever the daemon and the other holders do. Without
\* subscribers that take holders inside reconnect(): those may wait for ever
\* (NoCircularWait).
CallsReturn ==
  \A c \in Clients : pc[c] \notin {"out", "idle"} ~> pc[c] \in {"out", "idle"}
=============================================================================
