------------------------------ MODULE Registry ------------------------------
(***************************************************************************)
(* The registry of services (internal/etcd) and its two users: a chat      *)
(* server or feed server that registers itself under a lease and registers *)
(* again after it has lost it (ServiceRegister), and a gateway that lists  *)
(* the services, watches for changes, and gives logins an address of its   *)
(* list (ServiceDiscovery, server/start.go).                               *)
(*                                                                         *)
(* A service has a new key in every process (joker/start.go: ServiceId),   *)
(* so one that has stopped does not come back.  etcd is `live` and `key`.  *)
(***************************************************************************)
EXTENDS Naturals, Sequences

CONSTANTS
  Service,    \* service processes
  MaxEtcd     \* bound: failing calls, leases that run out under a running process

ASSUME RegistryAssumption == MaxEtcd \in Nat

NoLease == 0

VARIABLES
  reg,        \* reg[s]: the place in ServiceRegister, the lease in hand, leaseId
  live,       \* live[s]: the leases of s that etcd keeps
  key,        \* key[s]: the lease the key of s is attached to, NoLease if there is no key
  gateway,    \* the ServiceDiscovery of a gateway, its watch, and the list for logins
  missedKey,  \* history: a key has come or gone unnoticed by the watch
  etcdFaults  \* how often etcd has failed

registryVars == <<reg, live, key, gateway, missedKey, etcdFaults>>

RegistryInit ==
  /\ reg = [s \in Service |-> [pc |-> "new", lease |-> NoLease, id |-> NoLease]]
  /\ live = [s \in Service |-> {}]
  /\ key = [s \in Service |-> NoLease]
  /\ gateway = [pc |-> "get", list |-> {}, events |-> <<>>, sink |-> {}]
  /\ missedKey = FALSE
  /\ etcdFaults = 0

EtcdFails == etcdFaults < MaxEtcd /\ etcdFaults' = etcdFaults + 1

(***************************************************************************)
(* etcd: the key of s is now attached to lease l.  An open watch gets an   *)
(* event; before it is open nobody does.                                   *)
(***************************************************************************)
SetKey(s, l) ==
  /\ key' = [key EXCEPT ![s] = l]
  /\ IF gateway.pc = "watch"
     THEN /\ gateway' = [gateway EXCEPT !.events = Append(@, [of |-> s, put |-> l # NoLease])]
          /\ UNCHANGED missedKey
     ELSE /\ missedKey' = (missedKey \/ (gateway.pc = "gap" /\ (key[s] = NoLease) # (l = NoLease)))
          /\ UNCHANGED gateway

\* Lease l of s ends, and with it the key if it is still attached to it.
EndLease(s, l) ==
  /\ live' = [live EXCEPT ![s] = @ \ {l}]
  /\ IF key[s] = l THEN SetKey(s, NoLease) ELSE UNCHANGED <<key, gateway, missedKey>>

-----------------------------------------------------------------------------
(***************************************************************************)
(* putKeyWithLease: Grant, Put, KeepAlive.  leaseId is set at its end      *)
(* only.  Run calls it again after any error.                              *)
(***************************************************************************)
NewLease(s) == reg[s].lease + 1

Grant(s) ==
  /\ reg[s].pc = "new"
  /\ live' = [live EXCEPT ![s] = @ \cup {NewLease(s)}]
  /\ reg' = [reg EXCEPT ![s].pc = "put", ![s].lease = NewLease(s)]
  /\ UNCHANGED <<key, gateway, missedKey, etcdFaults>>

PutKey(s) ==
  /\ reg[s].pc = "put"
  /\ reg[s].lease \in live[s]
  /\ SetKey(s, reg[s].lease)
  /\ reg' = [reg EXCEPT ![s].pc = "keep"]
  /\ UNCHANGED <<live, etcdFaults>>

KeepAlive(s) ==
  /\ reg[s].pc = "keep"
  /\ reg' = [reg EXCEPT ![s].pc = "run", ![s].id = reg[s].lease]
  /\ UNCHANGED <<live, key, gateway, missedKey, etcdFaults>>

\* An error in one of the three; a Put may have been done all the same.
RegisterFails(s) ==
  /\ reg[s].pc \in {"new", "put", "keep"}
  /\ IF reg[s].pc = "put" /\ reg[s].lease \notin live[s] THEN UNCHANGED etcdFaults ELSE EtcdFails
  /\ reg' = [reg EXCEPT ![s].pc = "new"]
  /\ \/ reg[s].pc = "put" /\ reg[s].lease \in live[s] /\ SetKey(s, reg[s].lease)
     \/ UNCHANGED <<key, gateway, missedKey>>
  /\ UNCHANGED live

\* Mutant of ReRegister: no action uses it.
ReRegisterOnError(s) ==
  /\ reg[s].pc = "run" /\ reg[s].id \in live[s]
  /\ EtcdFails
  /\ reg' = [reg EXCEPT ![s].pc = "new"]
  /\ UNCHANGED <<live, key, gateway, missedKey>>

\* Run: the channel of the answers is closed, for the lease has run out or no answer came in time.
ReRegister(s) ==
  /\ reg[s].pc = "run"
  /\ IF reg[s].id \in live[s] THEN EtcdFails ELSE UNCHANGED etcdFaults
  /\ reg' = [reg EXCEPT ![s].pc = "new"]
  /\ UNCHANGED <<live, key, gateway, missedKey>>

(***************************************************************************)
(* The process ends; Close revokes the lease named by leaseId, if there is *)
(* time for it.                                                            *)
(***************************************************************************)
StopService(s) ==
  /\ reg[s].pc # "down"
  /\ reg' = [reg EXCEPT ![s].pc = "down"]
  /\ \/ reg[s].id \in live[s] /\ EndLease(s, reg[s].id)
     \/ UNCHANGED <<live, key, gateway, missedKey>>
  /\ UNCHANGED etcdFaults

\* The lease in hand and the one that is kept alive end only by a failure.
InUse(s, l) ==
  \/ reg[s].pc \in {"put", "keep"} /\ l = reg[s].lease
  \/ reg[s].pc = "run" /\ l = reg[s].id

Expire(s) ==
  \E l \in live[s] :
    /\ IF InUse(s, l) THEN EtcdFails ELSE UNCHANGED etcdFaults
    /\ EndLease(s, l)
    /\ UNCHANGED reg

-----------------------------------------------------------------------------
(***************************************************************************)
(* The gateway.  WatchService lists the keys, starts the watcher in a      *)
(* goroutine, and the list is taken over at once; if the listing fails,    *)
(* watch returns and nothing is ever listed again.                         *)
(***************************************************************************)
Keys == {s \in Service : key[s] # NoLease}

ListServices ==
  /\ gateway.pc = "get"
  /\ gateway' = [gateway EXCEPT !.pc = "gap", !.list = Keys, !.sink = Keys]
  /\ UNCHANGED <<reg, live, key, missedKey, etcdFaults>>

ListFails ==
  /\ gateway.pc = "get"
  /\ EtcdFails
  /\ gateway' = [gateway EXCEPT !.pc = "off"]
  /\ UNCHANGED <<reg, live, key, missedKey>>

\* Watch takes no revision: it begins with the present.
Watch ==
  /\ gateway.pc = "gap"
  /\ gateway' = [gateway EXCEPT !.pc = "watch"]
  /\ UNCHANGED <<reg, live, key, missedKey, etcdFaults>>

Applied(list, event) == IF event.put THEN list \cup {event.of} ELSE list \ {event.of}

ApplyEvent ==
  /\ gateway.events # <<>>
  /\ gateway' = [gateway EXCEPT !.list = Applied(@, Head(gateway.events)), !.events = Tail(@)]
  /\ UNCHANGED <<reg, live, key, missedKey, etcdFaults>>

\* Every 5 s: the list that login chooses from.
Refresh ==
  /\ gateway.pc \in {"gap", "watch"}
  /\ gateway.sink # gateway.list
  /\ gateway' = [gateway EXCEPT !.sink = gateway.list]
  /\ UNCHANGED <<reg, live, key, missedKey, etcdFaults>>

Register(s) == Grant(s) \/ PutKey(s) \/ KeepAlive(s) \/ RegisterFails(s) \/ ReRegister(s)

Discover == ListServices \/ Watch \/ ApplyEvent \/ Refresh

RegistryNext ==
  \/ \E s \in Service : Register(s) \/ StopService(s) \/ Expire(s)
  \/ Discover \/ ListFails

RegistrySpec == RegistryInit /\ [][RegistryNext]_registryVars

-----------------------------------------------------------------------------
\* The variables hold what the code can put into them.
RegistryTypeOK ==
  /\ \A s \in Service : /\ reg[s].pc \in {"new", "put", "keep", "run", "down"}
                        /\ reg[s].id <= reg[s].lease
                        /\ live[s] \subseteq 1..reg[s].lease
                        /\ key[s] \in live[s] \cup {NoLease}
  /\ gateway.pc \in {"get", "gap", "watch", "off"}
  /\ gateway.list \cup gateway.sink \subseteq Service

(***************************************************************************)
(* A service whose lease is kept alive has its key attached to this lease, *)
(* although leases of earlier attempts end at any time.  (The failure of   *)
(* 2026-09-05 in the comment on Run was a service that runs without one.)  *)
(***************************************************************************)
RunningHasKey ==
  \A s \in Service : reg[s].pc = "run" /\ reg[s].id \in live[s] => key[s] = reg[s].id

\* The list is what the keys were after the last event applied, if the watch has missed nothing.
ListIsKeys ==
  gateway.pc = "watch" /\ gateway.events = <<>> /\ ~missedKey => gateway.list = Keys

(***************************************************************************)
(* The list for logins ends as the services that run, after failed calls,  *)
(* lost leases and services that stop, if the first listing succeeded and  *)
(* no key changed before the watch was open.                               *)
(***************************************************************************)
Running == {s \in Service : reg[s].pc # "down"}

SinkConverges == <>[](gateway.pc = "watch" /\ ~missedKey => gateway.sink = Running)

(***************************************************************************)
(* The same without the two exceptions.  It fails in both cases.           *)
(***************************************************************************)
ListConverges == <>[](gateway.sink = Running)

=============================================================================
