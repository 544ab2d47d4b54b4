------------------------------- MODULE Broadcast -------------------------------
(***************************************************************************)
(* discovery/inprocess conn_manager.go, remote_conn.go, service_registry.go: *)
(* the connections of a broadcast (this instance and one per reported       *)
(* address) and one cross-instance call, against the clock, to a peer that  *)
(* may still be waiting for its method.                                     *)
(***************************************************************************)
EXTENDS Integers, Sequences, SequencesExt

CONSTANTS Peers,        \* addresses of other instances
          Self,         \* the address of this instance
          MaxReports,   \* length of a provider's report
          MaxConfigs,   \* configurations set, at most
          MaxLatency    \* seconds a request or an answer travels, at most

VARIABLES localTarget, serviceTarget,   \* "" or Self
          config,    \* [secret, provider]: the number of the configuration, or 0
          configs,
          get,       \* GetConns: [pc, secret, provider, addrs, conns]
          known,     \* history: the target GetConns took for its own
          clock,     \* seconds since the call left
          remote,    \* Invoke: [pc, at, result], at the time the stage was entered
          dead       \* the peer has gone

vars == <<localTarget, serviceTarget, config, configs, get, known, clock, remote, dead>>
registry == <<localTarget, serviceTarget, config, configs>>

NoConfig == [secret |-> 0, provider |-> 0]
NoGet == [pc |-> "idle", secret |-> 0, provider |-> 0, addrs |-> <<>>, conns |-> <<>>]
NoCall == [pc |-> "idle", at |-> 0, result |-> ""]
methodWaitTimeout == 10
(* The faulty variant: too short for the answer of a peer that waited. *)
remoteInvokeTimeoutShort == 11
remoteInvokeTimeout == 15

Init ==
    /\ localTarget = "" /\ serviceTarget = "" /\ config = NoConfig /\ configs = 0
    /\ get = NoGet /\ known = "" /\ clock = 0 /\ remote = NoCall /\ dead = FALSE
-----------------------------------------------------------------------------
(* Register: the first registration also names the instance. *)
registerLocalTarget ==
    /\ serviceTarget' = Self /\ localTarget' = IF localTarget = "" THEN Self ELSE localTarget
    /\ UNCHANGED <<config, configs, get, known, clock, remote, dead>>

setLocalTarget ==
    /\ localTarget' = Self
    /\ UNCHANGED <<serviceTarget, config, configs, get, known, clock, remote, dead>>

setBroadcastAddressProvider ==
    /\ configs < MaxConfigs /\ configs' = configs + 1
    /\ config' = [secret |-> configs + 1, provider |-> configs + 1]
    /\ UNCHANGED <<localTarget, serviceTarget, get, known, clock, remote, dead>>

(* Close of the service registry, as far as connections go. *)
close ==
    /\ config # NoConfig
    /\ localTarget' = "" /\ serviceTarget' = "" /\ config' = NoConfig
    /\ UNCHANGED <<configs, get, known, clock, remote, dead>>

(* GetConns: secret and provider under one lock; no provider, no peers. *)
broadcastConfig ==
    /\ get.pc = "idle"
    /\ get' = IF config.provider = 0 THEN [NoGet EXCEPT !.pc = "done", !.conns = <<"local">>]
              ELSE [NoGet EXCEPT !.pc = "report", !.secret = config.secret, !.provider = config.provider]
    /\ UNCHANGED <<registry, known, clock, remote, dead>>

(* The provider's answer: addresses, some of them blank, twice or its own,  *)
(* or an error.                                                             *)
providerReport ==
    /\ get.pc = "report"
    /\ \/ \E n \in 0..MaxReports : \E addrs \in [1..n -> Peers \cup {Self, ""}] :
             get' = [get EXCEPT !.pc = "self", !.addrs = addrs]
       \/ get' = NoGet
    /\ UNCHANGED <<registry, known, clock, remote, dead>>

serviceTargetOf == IF serviceTarget # "" THEN serviceTarget ELSE localTarget

(* One remote connection per address, in order. *)
dialPeers(self, addrs) ==
    FoldLeft(LAMBDA conns, x : IF x = "" \/ x = self \/ x \in ToSet(conns) THEN conns ELSE Append(conns, x),
             <<>>, addrs)

GetConns ==
    /\ get.pc = "self"
    /\ known' = serviceTargetOf
    /\ get' = [get EXCEPT !.pc = "done", !.conns = <<"local">> \o dialPeers(serviceTargetOf, get.addrs)]
    /\ UNCHANGED <<registry, clock, remote, dead>>

getDone ==
    /\ get.pc = "done" /\ get' = NoGet
    /\ UNCHANGED <<registry, known, clock, remote, dead>>
-----------------------------------------------------------------------------
Stage(pc) == remote' = [remote EXCEPT !.pc = pc, !.at = clock]
End(result) == remote' = [pc |-> "end", at |-> clock, result |-> result]

(* Invoke posts the request to a peer. *)
invokeSend ==
    /\ remote.pc = "idle" /\ Stage("request") /\ clock' = 0
    /\ UNCHANGED <<registry, get, known, dead>>

(* The peer looks its method up: it has it, or waits for it. *)
peerReceives ==
    /\ remote.pc = "request" /\ ~dead /\ (Stage("waiting") \/ Stage("answer"))
    /\ UNCHANGED <<registry, get, known, clock, dead>>

(* The method is registered, or methodWaitTimeout is over. *)
peerAnswers ==
    /\ remote.pc = "waiting" /\ ~dead /\ Stage("answer")
    /\ UNCHANGED <<registry, get, known, clock, dead>>

(* The peer dies, or the connection, and no answer comes. *)
peerDies ==
    /\ remote.pc \in {"request", "waiting"} /\ ~dead /\ dead' = TRUE
    /\ UNCHANGED <<registry, get, known, clock, remote>>

(* The answer arrives: the reply, the peer's error, or something that is no *)
(* answer (a status that is not OK, a body that cannot be read).            *)
invokeReceives ==
    /\ remote.pc = "answer" /\ \E r \in {"reply", "peerError", "badResponse"} : End(r)
    /\ UNCHANGED <<registry, get, known, clock, dead>>

(* The http client gives up. *)
invokeTimesOut ==
    /\ remote.pc \in {"request", "waiting", "answer"} /\ clock >= remoteInvokeTimeout /\ End("clientTimeout")
    /\ UNCHANGED <<registry, get, known, clock, dead>>

Due ==
    \/ remote.pc \in {"request", "answer"} /\ ~dead /\ clock - remote.at >= MaxLatency
    \/ remote.pc = "waiting" /\ ~dead /\ clock - remote.at >= methodWaitTimeout
    \/ remote.pc \notin {"idle", "end"} /\ clock >= remoteInvokeTimeout

(* A second passes, unless something is due. *)
Tick ==
    /\ remote.pc \notin {"idle", "end"} /\ ~Due /\ clock' = clock + 1
    /\ UNCHANGED <<registry, get, known, remote, dead>>
-----------------------------------------------------------------------------
(* Connections and calls share no state: each has steps of its own. *)
ConnsNext ==
    \/ registerLocalTarget \/ setLocalTarget \/ setBroadcastAddressProvider \/ close
    \/ broadcastConfig \/ providerReport \/ GetConns \/ getDone

CallNext == invokeSend \/ peerReceives \/ peerAnswers \/ peerDies \/ invokeReceives \/ invokeTimesOut \/ Tick
-----------------------------------------------------------------------------
TypeOK ==
    /\ {localTarget, serviceTarget, known} \subseteq {"", Self} /\ configs \in 0..MaxConfigs
    /\ {config.secret, config.provider, get.secret, get.provider} \subseteq 0..configs
    /\ ToSet(get.conns) \subseteq Peers \cup {Self, "local"}

(* A broadcast goes to this instance once, and to every other address once; *)
(* an instance that knows its target does not call itself over the network. *)
EachTargetOnce ==
    get.pc = "done" => /\ Head(get.conns) = "local" /\ IsInjective(get.conns)
                       /\ known # "" /\ Len(get.conns) > 1 => known \notin ToSet(Tail(get.conns))
                       /\ ToSet(get.addrs) \cap Peers \subseteq ToSet(get.conns)

(* Peers are called with the secret that was set with their provider, even  *)
(* if the configuration changes meanwhile.                                  *)
SecretOfProvider == get.pc # "idle" => get.secret = get.provider

(* As long as both ways take less than the difference of the two timeouts,  *)
(* the caller of a peer that lives gets its answer, never its own timeout.  *)
PeerAnswersFirst == remote.result = "clientTimeout" => dead
=============================================================================
