--------------------------- MODULE RedisMQBuilder ---------------------------
(***************************************************************************)
(* mq/redismq: the Builder, which checks the server once before it hands    *)
(* out producers and consumers, its defaults, and the cap its producers put *)
(* on a stream.  Entries are numbered from 1; a consumer acknowledges them  *)
(* from the front (the watermark of the acker, see AckWindow).              *)
(***************************************************************************)
EXTENDS Integers, FiniteSets

CONSTANTS Versions,             \* versions a server may have: 100 * major + minor
          Topics, Known,        \* topics asked for; the keys of topicGroupID
          Raw,                  \* values a field of the given Config may have
          MaxLen,               \* Config.MaxLen; 0 for no cap
          MaxEntries            \* bound: entries sent

VARIABLES given, cfg,           \* Config as given and filled
          server,               \* the server's version; Down while it cannot be asked
          version,              \* history: the version it has, up or down
          checked,              \* versionOnce and versionErr
          got,                  \* the producers and consumers handed out
          first, last,          \* the entries in the stream: first..last
          acked                 \* the acknowledged ones: 1..acked

vars == <<given, cfg, server, version, checked, got, first, last, acked>>
config == <<given, cfg>>
stream == <<first, last, acked>>

Down == 0
MinVersion == 602
Configs == [LeaseTTL : Raw, RenewInterval : Raw, ClaimMinIdle : Raw]
Default(x, d) == IF x <= 0 THEN d ELSE x

(* Config.fillDefault: each field in turn, from the ones before it. *)
fillDefault(c) == LET lease == Default(c.LeaseTTL, 15) IN
                  [LeaseTTL |-> lease, RenewInterval |-> Default(c.RenewInterval, lease \div 3),
                   ClaimMinIdle |-> Default(c.ClaimMinIdle, lease)]

Init == /\ given \in Configs /\ cfg = fillDefault(given) /\ version \in Versions /\ server \in {version, Down}
        /\ checked = "no" /\ got = {} /\ first = 1 /\ last = 0 /\ acked = 0
-----------------------------------------------------------------------------
(* checkServerVersion and checkVersionInfo: no answer, no version or an old *)
(* one is an error.                                                         *)
checkServerVersion(s) == IF s = Down \/ s \div 100 < MinVersion \div 100
                            \/ (s \div 100 = MinVersion \div 100 /\ s % 100 < MinVersion % 100) THEN "error" ELSE "ok"

(* The faulty variant: a server that does not answer is taken for a good    *)
(* one.                                                                     *)
checkLenient(t) == IF t \notin Known THEN "error" ELSE IF server = Down THEN "ok" ELSE checkServerVersion(server)
(* check, for a topic: the outcome; the server is asked the first time.     *)
check(t) == IF t \notin Known THEN "error" ELSE IF checked = "no" THEN checkServerVersion(server) ELSE checked

Get(t, kind, new) == /\ checked' = (IF t \in Known /\ checked = "no" THEN check(t) ELSE checked)
                     /\ got' = got \cup (IF check(t) = "ok" /\ new THEN {<<kind, t>>} ELSE {})
                     /\ UNCHANGED <<config, server, version, stream>>
GetTopicProducer(t) == Get(t, "producer", TRUE)
(* NewConsumer creates the group on the server. *)
GetTopicConsumer(t) == Get(t, "consumer", server # Down)

(* The server is lost, comes back, or is replaced by a newer one.           *)
Outage == server # Down /\ server' = Down /\ UNCHANGED <<config, version, checked, got, stream>>
Back(v) == /\ server = Down /\ v >= version /\ server' = v /\ version' = v
           /\ UNCHANGED <<config, checked, got, stream>>

(* Producer.SendMessage, with no more unacknowledged entries than the cap   *)
(* is sized for; the server trims to the cap or to somewhat more.           *)
SendMessage == /\ \E t \in Known : <<"producer", t>> \in got
               /\ server # Down /\ last < MaxEntries /\ (MaxLen = 0 \/ last - acked < MaxLen)
               /\ last' = last + 1
               /\ first' \in IF MaxLen = 0 THEN {first}
                             ELSE {f \in first..(last + 1) : f = first \/ (last + 1) - f + 1 >= MaxLen}
               /\ UNCHANGED <<config, server, version, checked, got, acked>>
(* The consumer acknowledges the oldest entry that is not.                  *)
Ack == /\ \E t \in Known : <<"consumer", t>> \in got
       /\ server # Down /\ acked < last /\ acked' = acked + 1
       /\ UNCHANGED <<config, server, version, checked, got, first, last>>

Next == \/ \E t \in Topics : GetTopicProducer(t) \/ GetTopicConsumer(t)
        \/ Outage \/ (\E v \in Versions : Back(v)) \/ SendMessage \/ Ack
Spec == Init /\ [][Next]_vars
-----------------------------------------------------------------------------
(* Nobody holds a producer or consumer for a server without XAUTOCLAIM and  *)
(* XTRIM MINID, nor for a topic without a group: outages, upgrades and      *)
(* repeated calls do not get around the one check.                          *)
FailClosed == got # {} => version >= MinVersion /\ \A g \in got : g[2] \in Known

(* With the defaults a leader renews its lease more than once in its life,  *)
(* and no successor claims what a leader with a lease may be processing.    *)
DefaultsFit == /\ given.RenewInterval = 0 => 2 * cfg.RenewInterval <= cfg.LeaseTTL
               /\ given.ClaimMinIdle = 0 => cfg.ClaimMinIdle >= cfg.LeaseTTL

(* A cap above the number of unacknowledged entries never trims one of them *)
(* though it counts the acknowledged ones too.                              *)
CapKeepsPending == first <= acked + 1
=============================================================================
