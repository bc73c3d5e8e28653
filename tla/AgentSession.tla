------------------------------ MODULE AgentSession ------------------------------
(***************************************************************************)
(* How a page talks to the local agents: the agent's address is read from  *)
(* the preferences for every request, the pairing token once, when the     *)
(* page is loaded (agentClient) or for every call (agentResources).  The   *)
(* first call exchanges the pairing token for a session; all calls of the  *)
(* same module wait for that one promise, which is kept whatever becomes   *)
(* of it.  An agent keeps its sessions in memory.                          *)
(***************************************************************************)
EXTENDS Naturals

CONSTANTS
    Agents,
    NoToken,
    AgentCalls           \* slots for calls under way

Clients == {"agentClient", "agentResources"}

(* Tokens: of the pairing with an agent, or of a session it opened.        *)
Pairing(a) == [kind |-> "pairing", agent |-> a, number |-> 0]
SessionToken(a, n) == [kind |-> "session", agent |-> a, number |-> n]

ASSUME AgentAssumption == NoToken \notin [kind : {"pairing", "session"}, agent : Agents, number : Nat]

VARIABLES
    settings,      \* the agent named in the preferences, and its pairing token or none
    client,        \* the state of each module of the page
    agentCalls,    \* calls under way
    agentSide,     \* of each agent: its sessions, and how many it ever opened
    received,      \* history: the calls that reached an agent
    steady         \* history: the page was loaded with the right pairing token, the settings have
                   \* not changed since and the agent has not restarted

agentVars == <<settings, client, agentCalls, agentSide, received, steady>>

NoCall == [stage |-> "free"]

(* The module-level state of a page that was just loaded.                  *)
LoadedPage(conf) ==
    [c \in Clients |-> [bootstrap |-> conf.token, token |-> IF c = "agentClient" THEN conf.token ELSE NoToken,
                        promise |-> "none", exchanges |-> 0]]

Configurations == [agent : Agents, token : {Pairing(a) : a \in Agents} \union {NoToken}]

Paired(conf) == conf.token = Pairing(conf.agent)

AgentInit ==
    /\ settings \in Configurations
    /\ client = LoadedPage(settings) /\ agentCalls = [s \in AgentCalls |-> NoCall]
    /\ agentSide = [a \in Agents |-> [sessions |-> {}, opened |-> 0]]
    /\ received = {} /\ steady = Paired(settings)

-------------------------------------------------------------------------------
(* The user.                                                               *)

CallStarts ==
    /\ \E s \in AgentCalls, c \in Clients :
          /\ agentCalls[s] = NoCall
          /\ agentCalls' = [agentCalls EXCEPT ![s] =
                [stage |-> IF c = "agentClient" THEN "health" ELSE "begin", by |-> c]]
    /\ UNCHANGED <<settings, client, agentSide, received, steady>>

(* saveSettings, in this window or another one.                            *)
SettingsChange ==
    /\ settings' \in Configurations \ {settings} /\ steady' = FALSE
    /\ UNCHANGED <<client, agentCalls, agentSide, received>>

PageReloads ==
    /\ client' = LoadedPage(settings) /\ agentCalls' = [s \in AgentCalls |-> NoCall]
    /\ steady' = Paired(settings)
    /\ UNCHANGED <<settings, agentSide, received>>

-------------------------------------------------------------------------------
(* checkAgentHandshake, headers.                                           *)

Bootstrap(c) == IF c = "agentClient" THEN client[c].bootstrap ELSE settings.token

(* The health of the agent was asked for.                                  *)
HealthAnswered(s) ==
    /\ agentCalls[s].stage = "health"
    /\ agentCalls' = [agentCalls EXCEPT ![s].stage = "begin"]
    /\ UNCHANGED <<settings, client, agentSide, received, steady>>

MustExchange(c) == client[c].promise = "none"

(* agentResources makes the promise without a token too; it is resolved    *)
(* then.                                                                   *)
CallBegins(s) ==
    LET c == agentCalls[s].by
        token == Bootstrap(c) IN
    /\ agentCalls[s].stage = "begin"
    /\ IF MustExchange(c) /\ token # NoToken
       THEN /\ client' = [client EXCEPT ![c].promise = "pending", ![c].exchanges = @ + 1]
            /\ agentCalls' = [agentCalls EXCEPT ![s] =
                  [stage |-> "exchange", by |-> c, agent |-> settings.agent, token |-> token]]
       ELSE /\ client' = IF c = "agentResources" /\ client[c].promise = "none"
                         THEN [client EXCEPT ![c].promise = "resolved"] ELSE client
            /\ agentCalls' = [agentCalls EXCEPT ![s] = [stage |-> "waiting", by |-> c, token |-> token]]
    /\ UNCHANGED <<settings, agentSide, received, steady>>

(* create_session behind auth_middleware.                                  *)
Authorized(a, token) == token = Pairing(a) \/ token \in agentSide[a].sessions

ExchangeAnswered(s, ok) ==
    LET call == agentCalls[s]
        c == call.by
        session == SessionToken(call.agent, agentSide[call.agent].opened + 1)
        granted == ok /\ Authorized(call.agent, call.token) IN
    /\ call.stage = "exchange"
    /\ agentSide' = IF granted THEN [agentSide EXCEPT ![call.agent].sessions = @ \union {session},
                                                      ![call.agent].opened = @ + 1]
                    ELSE agentSide
    /\ client' = IF granted THEN [client EXCEPT ![c].promise = "resolved", ![c].token = session]
                 ELSE IF c = "agentResources" /\ ok THEN [client EXCEPT ![c].promise = "resolved"]
                 ELSE [client EXCEPT ![c].promise = "rejected"]
    /\ agentCalls' = [agentCalls EXCEPT ![s] = [stage |-> "waiting", by |-> c, token |-> call.token]]
    /\ UNCHANGED <<settings, received, steady>>

NotAwaited(c) == TRUE               \* mutant: the call does not wait for the exchange
Settled(c) == client[c].promise \in {"none", "resolved"}

(* The call itself, with the token known by now.                           *)
CallSent(s) ==
    LET c == agentCalls[s].by
        token == IF client[c].token # NoToken THEN client[c].token
                 ELSE IF c = "agentResources" THEN agentCalls[s].token ELSE NoToken IN
    /\ agentCalls[s].stage = "waiting" /\ Settled(c)
    /\ agentCalls' = [agentCalls EXCEPT ![s] = NoCall]
    /\ received' = received \union {[by |-> c, token |-> token, steady |-> steady,
                                             ok |-> Authorized(settings.agent, token)]}
    /\ UNCHANGED <<settings, client, agentSide, steady>>

(* The exchange failed: every call of the page fails from now on.          *)
CallRejected(s) ==
    /\ agentCalls[s].stage = "waiting" /\ client[agentCalls[s].by].promise = "rejected"
    /\ agentCalls' = [agentCalls EXCEPT ![s] = NoCall]
    /\ UNCHANGED <<settings, client, agentSide, received, steady>>

(* No answer, an error status or another protocol version: nothing is kept.*)
HealthFailed(s) ==
    /\ agentCalls[s].stage = "health"
    /\ agentCalls' = [agentCalls EXCEPT ![s] = NoCall]
    /\ UNCHANGED <<settings, client, agentSide, received, steady>>

-------------------------------------------------------------------------------
(* An agent that restarts has forgotten its sessions; so has one whose     *)
(* sessions expired.                                                       *)
AgentRestarts ==
    /\ \E a \in Agents : agentSide[a].sessions # {} /\ agentSide' = [agentSide EXCEPT ![a].sessions = {}]
    /\ steady' = FALSE
    /\ UNCHANGED <<settings, client, agentCalls, received>>

AgentUser == CallStarts \/ SettingsChange \/ PageReloads
AgentAsync ==
    \E s \in AgentCalls :
        HealthAnswered(s) \/ CallBegins(s) \/ ExchangeAnswered(s, TRUE) \/ CallSent(s) \/ CallRejected(s)
AgentFault == AgentRestarts \/ \E s \in AgentCalls : HealthFailed(s) \/ ExchangeAnswered(s, FALSE)

-------------------------------------------------------------------------------
(* However many calls start at once, a page opens one session per module,  *)
(* no call of agentClient but the exchange carries the pairing token, and  *)
(* a page that was loaded with the right settings is let in by the agent   *)
(* with its session, until the settings change or the agent restarts: then *)
(* only a reload of the page helps.                                        *)
SessionUsed ==
    /\ \A c \in Clients : client[c].exchanges <= 1
    /\ \A r \in received :
          /\ r.by = "agentClient" /\ r.token # NoToken => r.token.kind = "session"
          /\ r.steady => r.ok /\ r.token.kind = "session"
===============================================================================
