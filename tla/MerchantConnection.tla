-------------------------- MODULE MerchantConnection --------------------------
(***************************************************************************)
(* One user's Zepto connection: the merchant_connections row, the OAuth    *)
(* flows that fill it, the requests that refresh its tokens and the        *)
(* disconnect, in any interleaving (ui/api.py, storage/repository.py).     *)
(*                                                                         *)
(* A token is known by the flow that granted it and by its generation: the *)
(* code exchange issues generation 1, each refresh the next.  The provider *)
(* honours the newest generation of a grant only (refresh tokens rotate).  *)
(***************************************************************************)
EXTENDS Naturals

CONSTANTS
    Requests,       \* requests of the user that may run at the same time
    Flows,          \* authorization states begin_authorization may draw
    NoFlow,         \* "no state in the row"
    MaxGeneration,  \* bound: tokens issued to one grant
    MaxDeaths       \* bound: requests that die half way

ASSUME NoFlowAssumption == NoFlow \notin Flows
ASSUME MaxGenerationAssumption == MaxGeneration \in Nat \ {0}
ASSUME MaxDeathsAssumption == MaxDeaths \in Nat

VARIABLES
    row,      \* the merchant_connections row
    lapsed,   \* flows whose authorization_expires_at has passed
    issued,   \* generations the provider issued to each flow's grant
    request,  \* where each request is
    begun,    \* flows that were begun
    latest,   \* history: the flow begun last
    lost,     \* history: flows with a generation no request brought home
    swapped,  \* history: the row's token replaced one of another grant
    deaths
connectionVars == <<row, lapsed, issued, request, begun, latest, lost, swapped, deaths>>

Token == [grant : Flows \cup {NoFlow}, generation : 0 .. MaxGeneration]
NoToken == [grant |-> NoFlow, generation |-> 0]

Row == [status : {"none", "pending", "connected", "error", "revoked"},
        token : Token, state : Flows \cup {NoFlow}]
NoRow == [status |-> "none", token |-> NoToken, state |-> NoFlow]

Request == [pc : {"idle", "exchange", "complete", "fail", "refresh", "store",
                  "revoke"},
            flow : Flows \cup {NoFlow}, token : Token, loaded : Row]
NoRequest == [pc |-> "idle", flow |-> NoFlow, token |-> NoToken, loaded |-> NoRow]

ConnectionTypeOK ==
    /\ row \in Row
    /\ lapsed \subseteq Flows
    /\ issued \in [Flows -> 0 .. MaxGeneration]
    /\ request \in [Requests -> Request]
    /\ begun \subseteq Flows
    /\ latest \in Flows \cup {NoFlow}
    /\ lost \subseteq Flows
    /\ swapped \in BOOLEAN
    /\ deaths \in 0 .. MaxDeaths

ConnectionInit ==
    /\ row = NoRow
    /\ lapsed = {}
    /\ issued = [f \in Flows |-> 0]
    /\ request = [r \in Requests |-> NoRequest]
    /\ begun = {}
    /\ latest = NoFlow
    /\ lost = {}
    /\ swapped = FALSE
    /\ deaths = 0

Ends(r) == request' = [request EXCEPT ![r] = NoRequest]

-----------------------------------------------------------------------------
(* connect: the OAuth flow                                                 *)

\* Mutant: the tokens of the last connection stay in the row.
RestartedKeeping(f) == [row EXCEPT !.status = "pending", !.state = f]

Restarted(f) == [status |-> "pending", token |-> NoToken, state |-> f]

\* begin_merchant_connection: the row is locked, or inserted.
Begin(f) ==
    /\ f \notin begun
    /\ row' = Restarted(f)
    /\ begun' = begun \cup {f}
    /\ latest' = f
    /\ UNCHANGED <<lapsed, issued, request, lost, swapped, deaths>>

\* The states both look-ups accept.
Pending(f) == row.status = "pending" /\ row.state = f

\* The browser comes back, any number of times: with a code or an error.
Callback(r, f) ==
    /\ request[r] = NoRequest
    /\ Pending(f) /\ f \notin lapsed
    /\ \E pc \in {"exchange", "fail"} :
         request' = [request EXCEPT ![r].pc = pc, ![r].flow = f]
    /\ UNCHANGED <<row, lapsed, issued, begun, latest, lost, swapped, deaths>>

\* exchange_authorization_code: a code is good once; the answer may be lost.
Exchange(r) ==
    LET f == request[r].flow
        first == [grant |-> f, generation |-> 1] IN
    /\ request[r].pc = "exchange"
    /\ \/ /\ issued[f] = 0
          /\ issued' = [issued EXCEPT ![f] = 1]
          /\ \/ /\ request' = [request EXCEPT ![r].pc = "complete",
                                              ![r].token = first]
                /\ UNCHANGED lost
             \/ /\ request' = [request EXCEPT ![r].pc = "fail"]
                /\ lost' = lost \cup {f}
       \/ /\ request' = [request EXCEPT ![r].pc = "fail"]
          /\ UNCHANGED <<issued, lost>>
    /\ UNCHANGED <<row, lapsed, begun, latest, swapped, deaths>>

\* Mutant: any pending row takes the tokens, not only that of the state.
MayCompleteAny(f) == row.status = "pending" /\ f \notin lapsed

MayComplete(f) == Pending(f) /\ f \notin lapsed

\* complete_merchant_connection consumes the state, under the row's lock; a row
\* that moved on takes nothing, and the grant is left to the provider.
Complete(r) ==
    LET f == request[r].flow IN
    /\ request[r].pc = "complete"
    /\ IF MayComplete(f)
       THEN /\ row' = [status |-> "connected", token |-> request[r].token,
                       state |-> NoFlow]
            /\ swapped' = FALSE
       ELSE UNCHANGED <<row, swapped>>
    /\ Ends(r)
    /\ UNCHANGED <<lapsed, issued, begun, latest, lost, deaths>>

\* fail_merchant_connection, for a denied consent or a failed exchange.
Fail(r) ==
    /\ request[r].pc = "fail"
    /\ row' = IF Pending(request[r].flow)
              THEN [row EXCEPT !.status = "error", !.state = NoFlow] ELSE row
    /\ Ends(r)
    /\ UNCHANGED <<lapsed, issued, begun, latest, lost, swapped, deaths>>

-----------------------------------------------------------------------------
(* use: _user_zepto_client                                                 *)

\* A request reads the row and finds its token expiring; one whose token is
\* good, or whose row is not connected or holds none, changes nothing.
Use(r) ==
    /\ request[r] = NoRequest
    /\ row.status = "connected" /\ row.token # NoToken
    /\ request' = [request EXCEPT ![r].pc = "refresh", ![r].token = row.token]
    /\ UNCHANGED <<row, lapsed, issued, begun, latest, lost, swapped, deaths>>

\* Mutant: the request goes on with the fresh token and does not store it.
RefreshForItself(r) ==
    LET g == request[r].token.grant
        fresh == request[r].token.generation + 1 IN
    /\ request[r].pc = "refresh"
    /\ fresh = issued[g] + 1 /\ fresh <= MaxGeneration
    /\ issued' = [issued EXCEPT ![g] = fresh]
    /\ Ends(r)
    /\ UNCHANGED <<row, lapsed, begun, latest, lost, swapped, deaths>>

\* refresh_access_token: granted for the newest generation, and the answer may
\* be lost; refused for an older one, which sends the user to reconnect.
Refresh(r) ==
    LET g == request[r].token.grant
        fresh == request[r].token.generation + 1 IN
    /\ request[r].pc = "refresh"
    /\ \/ /\ fresh = issued[g] + 1 /\ fresh <= MaxGeneration
          /\ issued' = [issued EXCEPT ![g] = fresh]
          /\ \/ /\ request' = [request EXCEPT ![r].pc = "store",
                                              ![r].token.generation = fresh]
                /\ UNCHANGED lost
             \/ Ends(r) /\ lost' = lost \cup {g}
       \/ Ends(r) /\ UNCHANGED <<issued, lost>>
    /\ UNCHANGED <<row, lapsed, begun, latest, swapped, deaths>>

\* The row as the writing session finds it decides whether tokens are kept.
Storable == row.status = "connected"

\* refresh_merchant_connection_tokens: a connected row takes the new token,
\* whichever grant it holds by now; any other row raises.
Store(r) ==
    /\ request[r].pc = "store"
    /\ IF Storable
       THEN /\ row' = [row EXCEPT !.token = request[r].token]
            /\ swapped' = (swapped \/ row.token.grant # request[r].token.grant)
       ELSE UNCHANGED <<row, swapped>>
    /\ Ends(r)
    /\ UNCHANGED <<lapsed, issued, begun, latest, lost, deaths>>

-----------------------------------------------------------------------------
(* disconnect                                                              *)

\* revoke_merchant_connection reads the row without locking it ...
RevokeLoad(r) ==
    /\ request[r] = NoRequest
    /\ row.status # "none"
    /\ request' = [request EXCEPT ![r].pc = "revoke", ![r].loaded = row]
    /\ UNCHANGED <<row, lapsed, issued, begun, latest, lost, swapped, deaths>>

\* ... and the session writes the columns that differ from what it read.
Written(now, loaded, new) == IF loaded = new THEN now ELSE new

RevokeCommit(r) ==
    LET loaded == request[r].loaded IN
    /\ request[r].pc = "revoke"
    /\ row' = [status |-> Written(row.status, loaded.status, "revoked"),
               token |-> Written(row.token, loaded.token, NoToken),
               state |-> Written(row.state, loaded.state, NoFlow)]
    /\ Ends(r)
    /\ UNCHANGED <<lapsed, issued, begun, latest, lost, swapped, deaths>>

-----------------------------------------------------------------------------
(* The environment                                                         *)

\* Ten minutes pass after a flow was begun.
Lapse(f) ==
    /\ f \in begun \ lapsed
    /\ lapsed' = lapsed \cup {f}
    /\ UNCHANGED <<row, issued, request, begun, latest, lost, swapped, deaths>>

\* The process dies; a token it was about to store dies with it.
Die(r) ==
    /\ request[r].pc # "idle" /\ deaths < MaxDeaths
    /\ deaths' = deaths + 1
    /\ lost' = IF request[r].pc \in {"complete", "store"}
               THEN lost \cup {request[r].token.grant} ELSE lost
    /\ Ends(r)
    /\ UNCHANGED <<row, lapsed, issued, begun, latest, swapped>>

ConnectionNext ==
    \/ \E f \in Flows : Begin(f) \/ Lapse(f)
    \/ \E r \in Requests :
         \/ \E f \in Flows : Callback(r, f)
         \/ Exchange(r) \/ Complete(r) \/ Fail(r) \/ Use(r) \/ Refresh(r)
         \/ Store(r) \/ RevokeLoad(r) \/ RevokeCommit(r) \/ Die(r)

ConnectionSpec == ConnectionInit /\ [][ConnectionNext]_connectionVars

-----------------------------------------------------------------------------
(* Properties                                                              *)

\* A token at rest belongs to a connection, or to one whose disconnect read
\* the row before the callback filled it: a row that waits for consent, was
\* refused it or failed holds none.
TokensAtRest ==
    row.token # NoToken => row.status \in {"connected", "revoked"}

\* The token a connected row uses is of the consent the user gave last, unless
\* a refresh begun under another grant answered after the user reconnected.  (A
\* connected row can be without a token: a disconnect that read a revoked row
\* writes the columns in which that row differed from an empty one.)
TokenOfLastConsent ==
    row.status = "connected" /\ row.token # NoToken =>
        row.token.grant = latest \/ swapped

\* A connection does not break by itself: the stored token is the newest its
\* grant has, or the request that refreshed it is about to store it, or that
\* request died, lost the answer, or stored into another grant's row.
StoredTokenIsLive ==
    LET g == row.token.grant IN
    row.status = "connected" /\ row.token # NoToken =>
        \/ row.token.generation = issued[g]
        \/ g \in lost
        \/ swapped
        \/ \E r \in Requests : /\ request[r].pc = "store"
                               /\ request[r].token.grant = g
=============================================================================
