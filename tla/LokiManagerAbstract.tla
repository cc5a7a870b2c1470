------------------------- MODULE LokiManagerAbstract -------------------------
(***************************************************************************)
(* What the loki client Manager promises the pipeline and its clients.   *)
(* It starts one client (or WAL watcher) per config and may give up       *)
(* while doing so.  Once running it takes entries one at a time: without  *)
(* the WAL it takes the next entry only when every entry taken so far has *)
(* reached every client, and it hands an entry only to a client that has  *)
(* not been stopped; with the WAL it discards them.  Stop returns, and     *)
(* stops every client, only once every entry taken is with every client. *)
(* StopNow stops the clients at once, before or during Stop.              *)
(***************************************************************************)
CONSTANTS
  Clients,   \* the configs, one client or watcher each
  Entries    \* the entries the pipeline may send

VARIABLES
  discard,   \* the WAL is enabled: entries are discarded
  started,   \* clients or watchers created, and so running until stopped
  accepted,  \* entries the Manager has taken from the pipeline
  got,       \* client -> entries handed to it
  halted,    \* client -> it has been stopped
  astate     \* "building", "failed", "running", "waiting", "stopped"

avars == <<discard, started, accepted, got, halted, astate>>

AInit ==
  /\ discard \in BOOLEAN
  /\ started = {}
  /\ accepted = {}
  /\ got = [c \in Clients |-> {}]
  /\ halted = [c \in Clients |-> FALSE]
  /\ astate = "building"

(* Every entry taken so far is with every client.                         *)
AllDelivered == \A c \in Clients : accepted \subseteq got[c]

(* A client or watcher is created and started; construction goes on or   *)
(* gives up right after.                                                   *)
AStart(c) ==
  /\ astate = "building"
  /\ started' = started \cup {c}
  /\ astate' \in {"building", "failed"}
  /\ UNCHANGED <<discard, accepted, got, halted>>

AFail ==
  /\ astate = "building"
  /\ astate' = "failed"
  /\ UNCHANGED <<discard, started, accepted, got, halted>>

ARun ==
  /\ astate = "building"
  /\ astate' = "running"
  /\ UNCHANGED <<discard, started, accepted, got, halted>>

(* The Manager takes e: with the WAL at any time, without it only once    *)
(* the entries taken before are with every client.                        *)
AAccept(e) ==
  /\ astate = "running"
  /\ e \notin accepted
  /\ discard \/ AllDelivered
  /\ accepted' = accepted \cup {e}
  /\ UNCHANGED <<discard, started, got, halted, astate>>

(* A taken entry is handed to a client that is not stopped.              *)
ADeliver(c, e) ==
  /\ ~discard
  /\ e \in accepted
  /\ ~halted[c]
  /\ got' = [got EXCEPT ![c] = @ \cup {e}]
  /\ UNCHANGED <<discard, started, accepted, halted, astate>>

AClose ==
  /\ astate = "running"
  /\ astate' = "waiting"
  /\ UNCHANGED <<discard, started, accepted, got, halted>>

(* Stop returns once everything taken has been handed out, and stops all. *)
AStop ==
  /\ astate = "waiting"
  /\ discard \/ AllDelivered
  /\ halted' = [c \in Clients |-> TRUE]
  /\ astate' = "stopped"
  /\ UNCHANGED <<discard, started, accepted, got>>

(* StopNow stops the clients (not the WAL watchers) at once, also while  *)
(* Stop is waiting.                                                        *)
AHaltNow ==
  /\ astate \in {"running", "waiting"}
  /\ halted' = [c \in Clients |-> ~discard \/ halted[c]]
  /\ UNCHANGED <<discard, started, accepted, got, astate>>

ANext ==
  \/ \E c \in Clients : AStart(c)
  \/ AFail
  \/ ARun
  \/ \E e \in Entries : AAccept(e)
  \/ \E c \in Clients, e \in Entries : ADeliver(c, e)
  \/ AClose
  \/ AStop
  \/ AHaltNow

ASpec == AInit /\ [][ANext]_avars

=============================================================================
