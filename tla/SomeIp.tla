------------------------------- MODULE SomeIp -------------------------------
(***************************************************************************)
(* What the core remembers of SOME/IP between two messages (bus.rs): the     *)
(* session counters, the requests it waits on, the services its scripts      *)
(* offer with their replies, and who subscribed to them.                    *)
(*                                                                         *)
(* A message arrives complete (Reassembly) from the log or a port.  A frame *)
(* the core sends on a bus without a port comes back to itself, under a      *)
(* guard that keeps it from rules, acknowledgements, replies and scripts.    *)
(***************************************************************************)
EXTENDS Integers, Sequences, FiniteSets, FiniteSetsExt, SequencesExt

CONSTANTS
    Calls,        \* calls: bus, service, method and client of a message
    Service,     \* Service[k]: the service of a call (with its bus)
    Catalogued,  \* the calls whose method the ARXML catalogue describes
    Groups,      \* eventgroups that can be subscribed to
    GroupOf,     \* GroupOf[g]: the service of an eventgroup
    Endpoints,   \* where subscribers listen
    NoEndpoint,  \* a model value: nobody
    Wrap,        \* the session numbers (2^16 in the code)
    Reactions,   \* bound: what a script may do on a SOME/IP message
    Timed,       \* bound: what it may do on a timer or another frame
    Ruled,       \* bound: the calls a rule may make
    Patience,    \* how long a request is waited for (5 s)
    MaxSim,      \* bound: the sim clock
    MaxSends     \* bound: requests sent in a run

VARIABLES
    tick,     \* sim_t_us
    looped,   \* the bus has no port: own frames are ingested
    sessions, \* someip_sessions, 0 where there is no entry
    pending,  \* someip_pending, each with its place in `asked`
    offers,   \* someip_offers
    replies,  \* someip_replies: the calls a script configured an answer for
    subscribers,     \* someip_subscriptions, in order
    wire,     \* what the last handler sent to one receiver: replies and notifications
    asked,    \* history: the requests of the run and what became of them
    want,     \* history: the endpoint each eventgroup was last subscribed with
    promised  \* history: the services the scripts offered and did not withdraw

someIpVars == <<tick, looped, sessions, pending, offers, replies, subscribers, wire, asked, want, promised>>

Services == {Service[k] : k \in Calls}
Types == {"request", "response", "notification"}

\* What a script may ask the core for; session 0 leaves the choice to the core.
Operations ==
    [op : {"nothing"}]
    \cup [op : {"send"}, type : Types, key : Calls, session : 0 .. Wrap - 1]
    \cup [op : {"tcp"}, key : Calls, session : 0 .. Wrap - 1]
    \cup [op : {"reply"}, key : Calls]
    \cup [op : {"offer"}, service : Services, ttl : {0, 1}]

ASSUME SomeIpAssumption ==
    /\ Wrap \in Nat /\ Wrap > 1
    /\ Patience \in Nat /\ MaxSim \in Nat /\ MaxSends \in Nat
    /\ Ruled \subseteq Calls /\ Reactions \subseteq Operations /\ Timed \subseteq Operations
    /\ NoEndpoint \notin Endpoints /\ {"everyone", "sender"} \cap Endpoints = {}

Message(type, k, session, to) == [type |-> type, key |-> k, session |-> session, to |-> to]
Everyone == "everyone"

\* What one handler works on.
Core == [sim |-> tick, sessions |-> sessions, pending |-> pending, offers |-> offers,
         replies |-> replies, subs |-> subscribers, wire |-> <<>>, asked |-> asked, promised |-> promised]

-----------------------------------------------------------------------------
(* Sessions and pending requests                                            *)

\* next_someip_session: wrapping_add(1).max(1); a requested session is used as it is
Counted(c, k) ==
    LET n == c.sessions[k] IN
    [c EXCEPT !.sessions = [@ EXCEPT ![k] = IF n + 1 = Wrap THEN 1 ELSE n + 1]]

NextSession(c, k, requested) ==
    IF requested # 0 THEN [core |-> c, session |-> requested]
    ELSE [core |-> Counted(c, k), session |-> Counted(c, k).sessions[k]]

\* note_someip_request
Noted(c, type, k, session) ==
    IF type # "request" THEN c
    ELSE [c EXCEPT
            !.pending = Append(@, [key |-> k, session |-> session,
                                   deadline |-> c.sim + Patience, n |-> Len(c.asked) + 1]),
            !.asked = Append(@, [key |-> k, session |-> session, at |-> c.sim,
                                 fate |-> "open", heard |-> FALSE])]

\* Vec::retain and its kin: the elements of s at the positions "kept", in order.
\* (SelectSeq would do; what it returns is nothing a proof can use.)
Nth(kept, j) == CHOOSE i \in kept : Cardinality({h \in kept : h <= i}) = j
Retained(s, kept) == [j \in 1 .. Cardinality(kept) |-> s[Nth(kept, j)]]
Without(s, i) == Retained(s, DOMAIN s \ {i})

Matching(c, k, session) ==
    {i \in DOMAIN c.pending : c.pending[i].key = k /\ c.pending[i].session = session}

\* History: a response of its identity came while the request was open.
Heard(r, k, session) ==
    [r EXCEPT !.heard = @ \/ (r.fate = "open" /\ r.key = k /\ r.session = session)]

\* A response takes the first request with its identity off the list.
Answered(c, k, session) ==
    LET found == Matching(c, k, session)
        heard == [n \in DOMAIN c.asked |-> Heard(c.asked[n], k, session)]
    IN  IF found = {} THEN [c EXCEPT !.asked = heard]
        ELSE LET n == c.pending[Min(found)].n IN
             [c EXCEPT !.pending = Without(@, Min(found)),
                       !.asked = [heard EXCEPT ![n] = [heard[n] EXCEPT !.fate = "answered"]]]

\* An own frame on the wire: on a bus without a port accept_someip_event sees it
\* under the guard, which leaves it the answer to a request.
Sent(c, type, k, session, to) ==
    LET out == IF to = Everyone THEN c
               ELSE [c EXCEPT !.wire = Append(@, Message(type, k, session, to))]
    IN  IF looped /\ type = "response" THEN Answered(out, k, session) ELSE out

\* PanelSendSomeIp and a rule's SendSomeIp.  Over TCP the message goes to a socket
\* and never comes back; whether it got there changes nothing here.
Send(c, type, k, requested, tcp) ==
    LET got == NextSession(c, k, requested)
        noted == Noted(got.core, type, k, got.session)
    IN  IF tcp THEN noted ELSE Sent(noted, type, k, got.session, Everyone)

\* mutant: a request expires at its deadline
ExpiredOnesEarly(now) == {i \in DOMAIN pending : now >= pending[i].deadline}

\* expire_someip_requests, from publish
ExpiredOnes(now) == {i \in DOMAIN pending : now > pending[i].deadline}
Expire(now) ==
    /\ pending' = Retained(pending, DOMAIN pending \ ExpiredOnes(now))
    /\ asked' = [n \in DOMAIN asked |->
                   IF \E i \in ExpiredOnes(now) : pending[i].n = n
                     THEN [asked[n] EXCEPT !.fate = "timeout"] ELSE asked[n]]

-----------------------------------------------------------------------------
(* What scripts ask for: apply_script_someip, _replies, _tcp, _offers        *)

Subscribers(c, k) ==
    Retained(c.subs, {i \in DOMAIN c.subs : GroupOf[c.subs[i].group] = Service[k]})

\* A script's message is nobody's pending request.  A notification goes out once
\* as it is and once to every subscriber of its service.
ScriptSend(c, type, k, requested) ==
    LET got == NextSession(c, k, requested)
        first == Sent(got.core, type, k, got.session, Everyone)
        to == Subscribers(c, k)
    IN  IF type # "notification" THEN first
        ELSE [first EXCEPT !.wire = @ \o [i \in DOMAIN to |-> Message(type, k, got.session, to[i].endpoint)]]

ScriptSendTcp(c, k, requested) == NextSession(c, k, requested).core

ScriptOffer(c, service, ttl) ==
    [c EXCEPT
        !.offers = IF ttl = 0 THEN @ \ {service} ELSE @ \cup {service},
        !.promised = IF ttl = 0 THEN @ \ {service} ELSE @ \cup {service}]

Script(c, o) ==
    CASE o.op = "nothing" -> c
      [] o.op = "send" -> ScriptSend(c, o.type, o.key, o.session)
      [] o.op = "tcp" -> ScriptSendTcp(c, o.key, o.session)
      [] o.op = "reply" -> [c EXCEPT !.replies = @ \cup {o.key}]
      [] o.op = "offer" -> ScriptOffer(c, o.service, o.ttl)

-----------------------------------------------------------------------------
(* Service discovery and automatic replies                                  *)

At(c, g) == {i \in DOMAIN c.subs : c.subs[i].group = g}

Subscribed(c, g, endpoint) ==
    IF At(c, g) = {} THEN [c EXCEPT !.subs = Append(@, [group |-> g, endpoint |-> endpoint])]
    ELSE [c EXCEPT !.subs = [@ EXCEPT ![Min(At(c, g))] = [group |-> g, endpoint |-> endpoint]]]

\* ack_someip_subscribes, one entry: a stop is obeyed whatever is offered, a
\* subscription taken and acknowledged only for an offered service.
AckSubscribe(c, g, endpoint, ttl) ==
    IF ttl = 0 THEN [c EXCEPT !.subs = Retained(@, DOMAIN @ \ At(c, g))]
    ELSE IF GroupOf[g] \notin c.offers THEN c
    ELSE Subscribed(c, g, endpoint)

\* auto_reply_someip_method
AutoReply(c, k, session, tcp) ==
    IF Service[k] \in c.offers /\ (k \in c.replies \/ k \in Catalogued)
      THEN IF tcp THEN [c EXCEPT !.wire = Append(@, Message("response", k, session, "sender"))]
                  ELSE Sent(c, "response", k, session, "sender")
      ELSE c

-----------------------------------------------------------------------------

Becomes(c) ==
    /\ sessions' = c.sessions /\ pending' = c.pending /\ offers' = c.offers
    /\ replies' = c.replies /\ subscribers' = c.subs /\ wire' = c.wire
    /\ asked' = c.asked /\ promised' = c.promised
    /\ UNCHANGED <<tick, looped>>

\* A panel sends, or a rule that something else than a SOME/IP message fired.
PanelSend(type, k, requested, tcp) ==
    /\ Becomes(Send(Core, type, k, requested, tcp))
    /\ UNCHANGED want

\* A script runs on a timer or a frame.
NodeRuns(o) == Becomes(Script(Core, o)) /\ UNCHANGED want

\* accept_someip_event, not under the guard: answer, rules, acknowledgement,
\* automatic reply, scripts, in this order.
ByRule(c, rule) == IF rule = "none" THEN c ELSE Send(c, "request", rule, 0, FALSE)

Receive(type, k, session, tcp, rule, script) ==
    LET answered == IF type = "response" THEN Answered(Core, k, session) ELSE Core
        ruled == ByRule(answered, rule)
        replied == IF type = "request" THEN AutoReply(ruled, k, session, tcp) ELSE ruled
    IN  Becomes(Script(replied, script)) /\ UNCHANGED want

ReceiveSubscribe(g, endpoint, ttl, rule, script) ==
    /\ Becomes(Script(AckSubscribe(ByRule(Core, rule), g, endpoint, ttl), script))
    /\ want' = [want EXCEPT ![g] = IF ttl = 0 THEN NoEndpoint
                                   ELSE IF GroupOf[g] \in offers THEN endpoint ELSE @]

\* publish_trace at the end of a lap
PublishTrace(now) ==
    /\ now \in tick .. MaxSim
    /\ tick' = now
    /\ Expire(now)
    /\ wire' = <<>>
    /\ UNCHANGED <<looped, sessions, offers, replies, subscribers, want, promised>>

Forget == /\ sessions' = [k \in Calls |-> 0]
          /\ pending' = <<>> /\ offers' = {} /\ replies' = {} /\ subscribers' = <<>>
          /\ wire' = <<>> /\ asked' = <<>>
          /\ want' = [g \in Groups |-> NoEndpoint]
          /\ UNCHANGED looped

\* reset_run at the start of a run
ResetRun == Forget /\ tick' = 0 /\ promised' = {}

\* clear_trace_view in the middle of one: the scripts are not told
ClearTraceView == Forget /\ UNCHANGED <<tick, promised>>

SomeIpInit ==
    /\ tick = 0 /\ looped \in BOOLEAN
    /\ sessions = [k \in Calls |-> 0]
    /\ pending = <<>> /\ offers = {} /\ replies = {} /\ subscribers = <<>>
    /\ wire = <<>> /\ asked = <<>>
    /\ want = [g \in Groups |-> NoEndpoint] /\ promised = {}

Room == Len(asked) < MaxSends
Rules == IF Room THEN Ruled \cup {"none"} ELSE {"none"}

SomeIpNext ==
    \/ Room /\ \E type \in Types, k \in Calls, requested \in {0, 1}, tcp \in BOOLEAN :
                   PanelSend(type, k, requested, tcp)
    \/ \E o \in Timed : NodeRuns(o)
    \/ \E type \in Types, k \in Calls, session \in 1 .. Wrap - 1, tcp \in BOOLEAN,
          rule \in Rules, script \in Reactions :
           (tcp => type = "request") /\ Receive(type, k, session, tcp, rule, script)
    \/ \E g \in Groups, endpoint \in Endpoints, ttl \in {0, 1}, rule \in Rules, script \in Reactions :
           ReceiveSubscribe(g, endpoint, ttl, rule, script)
    \/ \E now \in tick .. MaxSim : PublishTrace(now)
    \/ ResetRun
    \/ ClearTraceView

SomeIpSpec == SomeIpInit /\ [][SomeIpNext]_someIpVars

-----------------------------------------------------------------------------

SomeIpTyped ==
    /\ tick \in 0 .. MaxSim /\ looped \in BOOLEAN
    /\ sessions \in [Calls -> 0 .. Wrap - 1]
    /\ \A i \in DOMAIN pending :
          pending[i] \in [key : Calls, session : 1 .. Wrap - 1,
                          deadline : 0 .. MaxSim + Patience, n : 1 .. MaxSends]
    /\ offers \subseteq Services /\ replies \subseteq Calls
    /\ \A i \in DOMAIN subscribers : subscribers[i] \in [group : Groups, endpoint : Endpoints]

\* No other request of the run went out under the same identity: what a session
\* number is for, as long as a counter does not wrap within a run and nobody
\* picks a session by hand.
Unique(n) == \A m \in DOMAIN asked : m # n =>
    <<asked[m].key, asked[m].session>> # <<asked[n].key, asked[n].session>>

\* A request the core waits for ends in exactly one way, whatever other calls,
\* retries and automatic replies pass meanwhile: it is answered by a response of
\* its own identity, or reported as timed out after its whole patience and only if
\* no such response ever came (note_someip_request, accept_someip_event,
\* expire_someip_requests).
RequestsSettle ==
    /\ \A n \in DOMAIN asked :
          /\ asked[n].fate = "timeout" => tick > asked[n].at + Patience
          /\ asked[n].fate = "answered" => asked[n].heard
          /\ Unique(n) /\ asked[n].heard => asked[n].fate = "answered"
    /\ \A n \in DOMAIN asked : asked[n].fate = "open" <=> \E i \in DOMAIN pending : pending[i].n = n

\* A notification reaches every subscriber once, at the endpoint it last asked
\* for, however often it subscribed and unsubscribed (ack_someip_subscribes,
\* apply_script_someip).
Notifications(service) == {i \in DOMAIN wire :
    wire[i].type = "notification" /\ wire[i].to # "sender" /\ Service[wire[i].key] = service}
NotifiedOnce == \A service \in Services :
    LET sent == Notifications(service)
        due == {g \in Groups : GroupOf[g] = service /\ want[g] # NoEndpoint}
    IN  sent # {} => \A e \in Endpoints :
            Cardinality({i \in sent : wire[i].to = e}) = Cardinality({g \in due : want[g] = e})

\* Requests are settled and subscribers notified once.
SessionsHonest == RequestsSettle /\ NotifiedOnce

\* A service a script offers in this run answers: a request for a method of it
\* that has an answer gets one, until the script withdraws the offer.
AnswersWhileOffered == [][\A k \in Calls, session \in 1 .. Wrap - 1 :
    Receive("request", k, session, FALSE, "none", [op |-> "nothing"])
        /\ Service[k] \in promised /\ k \in Catalogued
    => \E i \in DOMAIN wire' : wire'[i] = Message("response", k, session, "sender")]_someIpVars
=============================================================================
