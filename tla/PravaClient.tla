----------------------------- MODULE PravaClient -----------------------------
(***************************************************************************)
(* payments/prava_client.py: one process that creates Prava sessions,      *)
(* polls them for the user's approval and hands the one-time card to a     *)
(* checkout, with several threads in it (requests of the API) and restarts *)
(* that lose what it holds in memory.  The card itself is not modelled:    *)
(* a credential reference stands for it and for what is left of it.        *)
(***************************************************************************)
EXTENDS Naturals, FiniteSets

CONSTANTS
    Sessions,     \* Prava sessions, which are the intent references
    NoSession,
    References,   \* credential references await_mandate may draw
    NoReference,
    Threads,      \* threads of the process
    MaxFaults     \* bound: restarts and lost answers

ASSUME NoSessionAssumption == NoSession \notin Sessions
ASSUME NoReferenceAssumption == NoReference \notin References
ASSUME MaxFaultsAssumption == MaxFaults \in Nat

VARIABLES
    prava,       \* each session at Prava
    intents,     \* _INTENTS
    credentials, \* _CREDENTIALS
    thread,      \* where each thread is
    leases,      \* history: how many times a reference's card was handed out
    shared,      \* history: sessions polled by two threads at once, or by a
                 \* process that had forgotten what it knew of them
    faults
clientVars == <<prava, intents, credentials, thread, leases, shared, faults>>

Intent == [known : BOOLEAN, dated : BOOLEAN,
           outcome : {"none", "approved", "rejected", "expired"},
           ref : References \cup {NoReference}]
NoIntent == [known |-> FALSE, dated |-> FALSE, outcome |-> "none",
             ref |-> NoReference]

Credential == [session : Sessions \cup {NoSession}, card : BOOLEAN,
               consumed : BOOLEAN, aged : BOOLEAN]
NoCredential == [session |-> NoSession, card |-> FALSE, consumed |-> FALSE,
                 aged |-> FALSE]

Thread == [pc : {"idle", "poll", "publish", "answered", "pop",
                 "report", "forget", "order"},   \* "order": its caller's checkout
           session : Sessions \cup {NoSession},
           ref : References \cup {NoReference},
           outcome : {"none", "approved", "rejected", "expired"}]
Idle == [pc |-> "idle", session |-> NoSession, ref |-> NoReference,
         outcome |-> "none"]

ClientTypeOK ==
    /\ prava \in [Sessions -> {"none", "pending", "awaiting_result", "failed",
                               "expired", "completed"}]
    /\ intents \in [Sessions -> Intent]
    /\ credentials \in [References -> Credential]
    /\ thread \in [Threads -> Thread]
    /\ leases \in [References -> Nat]
    /\ shared \subseteq Sessions
    /\ faults \in 0 .. MaxFaults

ClientInit ==
    /\ prava = [s \in Sessions |-> "none"]
    /\ intents = [s \in Sessions |-> NoIntent]
    /\ credentials = [c \in References |-> NoCredential]
    /\ thread = [t \in Threads |-> Idle]
    /\ leases = [c \in References |-> 0]
    /\ shared = {}
    /\ faults = 0

Fault == faults < MaxFaults /\ faults' = faults + 1

Polling(t, s) == thread[t].pc \in {"poll", "publish"} /\ thread[t].session = s
Leaves(t) == thread' = [thread EXCEPT ![t] = Idle]
Goes(t, pc) == thread' = [thread EXCEPT ![t].pc = pc]
Answers(t, outcome, ref) ==
    thread' = [thread EXCEPT ![t].pc = "answered", ![t].outcome = outcome,
                             ![t].ref = ref]

-----------------------------------------------------------------------------
(* Sessions                                                                *)

\* create_intent: the session and its context; a lost answer leaves a session
\* nobody knows of.
CreateIntent(s) ==
    /\ prava[s] = "none"
    /\ prava' = [prava EXCEPT ![s] = "pending"]
    /\ \/ /\ intents' = [intents EXCEPT ![s] = [NoIntent EXCEPT !.known = TRUE,
                                                                !.dated = TRUE]]
          /\ UNCHANGED faults
       \/ Fault /\ UNCHANGED intents
    /\ UNCHANGED <<credentials, thread, leases, shared>>

\* register_intent_context, for a session whose reference a run has kept.
RegisterIntentContext(s) ==
    /\ prava[s] # "none" /\ ~intents[s].known
    /\ intents' = [intents EXCEPT ![s] = [NoIntent EXCEPT !.known = TRUE]]
    /\ UNCHANGED <<prava, credentials, thread, leases, shared, faults>>

\* The user approves, the session fails or its time is over, at Prava.
Decide(s, state) ==
    /\ \/ prava[s] = "pending" /\ state \in {"awaiting_result", "failed", "expired"}
       \/ prava[s] = "awaiting_result" /\ state = "expired"
    /\ prava' = [prava EXCEPT ![s] = state]
    /\ UNCHANGED <<intents, credentials, thread, leases, shared, faults>>

-----------------------------------------------------------------------------
(* await_mandate                                                           *)

\* Mutant: every call polls, whatever is known.
KnownNever(s) == FALSE

\* An outcome that is there is answered, to whoever asks.
Known(s) == intents[s].outcome # "none"

Await(t, s) ==
    /\ thread[t] = Idle
    /\ intents[s].known
    /\ thread' = [thread EXCEPT
         ![t] = [Idle EXCEPT
             !.session = s,
             !.pc = IF Known(s) THEN "answered" ELSE "poll",
             !.outcome = intents[s].outcome, !.ref = intents[s].ref]]
    /\ shared' = IF ~Known(s) /\ \E u \in Threads : Polling(u, s)
                 THEN shared \cup {s} ELSE shared
    /\ UNCHANGED <<prava, intents, credentials, leases, faults>>

\* Sleeps and asks again, or finds poll_timeout_seconds over, which raises.
Retries(t) == Leaves(t) \/ UNCHANGED thread

\* One payment-result says what the session is at Prava; the error code of a
\* failed one may say that it expired.
PollSettled(t) ==
    LET s == thread[t].session IN
    \E outcome \in {"rejected", "expired"} :
        /\ \/ prava[s] = "failed"
           \/ prava[s] = "expired" /\ outcome = "expired"
        /\ intents' = [intents EXCEPT ![s].outcome = outcome, ![s].ref = NoReference]
        /\ Answers(t, outcome, NoReference)
        /\ UNCHANGED <<credentials, faults>>

\* The session's own expiry, by the local clock, if the process still has it.
PollLapsed(t) ==
    LET s == thread[t].session IN
    /\ prava[s] = "pending" /\ intents[s].dated
    /\ intents' = [intents EXCEPT ![s].outcome = "expired", ![s].ref = NoReference]
    /\ Answers(t, "expired", NoReference)
    /\ UNCHANGED <<credentials, faults>>

\* The card is put away under a fresh reference, before the intent names it.
PollApproved(t) ==
    LET s == thread[t].session IN
    /\ prava[s] = "awaiting_result"
    /\ \E c \in References :
         /\ credentials[c] = NoCredential /\ leases[c] = 0
         /\ \A u \in Threads : thread[u].ref # c
         /\ \A r \in Sessions : intents[r].ref # c
         /\ credentials' = [credentials EXCEPT ![c] =
                [NoCredential EXCEPT !.session = s, !.card = TRUE]]
         /\ thread' = [thread EXCEPT ![t].pc = "publish", ![t].ref = c]
    /\ UNCHANGED <<intents, faults>>

\* A pending session, or an upstream failure, is retried; a completed one, and
\* an answer without the card, raises.
Poll(t) ==
    LET s == thread[t].session IN
    /\ thread[t].pc = "poll"
    /\ \/ PollSettled(t) \/ PollLapsed(t) \/ PollApproved(t)
       \/ prava[s] = "pending" /\ Retries(t) /\ UNCHANGED <<intents, credentials, faults>>
       \/ /\ prava[s] \in {"awaiting_result", "completed"}
          /\ Leaves(t)
          /\ UNCHANGED <<intents, credentials, faults>>
    /\ UNCHANGED <<prava, leases, shared>>

\* The outcome is kept with the intent, over whatever another poll left there.
Publish(t) ==
    LET s == thread[t].session IN
    /\ thread[t].pc = "publish"
    /\ intents' = [intents EXCEPT ![s].outcome = "approved", ![s].ref = thread[t].ref]
    /\ Answers(t, "approved", thread[t].ref)
    /\ UNCHANGED <<prava, credentials, leases, shared, faults>>

-----------------------------------------------------------------------------
(* The card                                                                *)

\* _credential_record: an aged record is removed by whoever looks at it.
Dropped(c) == IF credentials[c].aged THEN [credentials EXCEPT ![c] = NoCredential]
              ELSE credentials

\* consume_credential looks at the record of an approved mandate ...
Consume(t, c) ==
    /\ thread[t] = Idle
    /\ credentials[c].session # NoSession
    /\ \E s \in Sessions : intents[s].ref = c
    /\ credentials' = Dropped(c)
    /\ IF credentials[c].card /\ ~credentials[c].consumed /\ ~credentials[c].aged
       THEN thread' = [thread EXCEPT ![t].pc = "pop", ![t].ref = c]
       ELSE UNCHANGED thread
    /\ UNCHANGED <<prava, intents, leases, shared, faults>>

\* Mutant: fields that are gone are not missed.
PopTolerant(t) ==
    LET c == thread[t].ref IN
    /\ thread[t].pc = "pop"
    /\ leases' = [leases EXCEPT ![c] = @ + 1]
    /\ credentials' = IF credentials[c] = NoCredential THEN credentials
                      ELSE [credentials EXCEPT ![c].card = FALSE, ![c].consumed = TRUE]
    /\ Goes(t, "report")
    /\ UNCHANGED <<prava, intents, shared, faults>>

\* ... and takes its fields out one by one: the second thread to try fails at
\* the first field.  The record it looked at may have left the dictionary.
Pop(t) ==
    LET c == thread[t].ref IN
    /\ thread[t].pc = "pop"
    /\ IF leases[c] = 0
       THEN /\ leases' = [leases EXCEPT ![c] = @ + 1]
            /\ credentials' =
                 IF credentials[c] = NoCredential THEN credentials
                 ELSE [credentials EXCEPT ![c].card = FALSE, ![c].consumed = TRUE]
            /\ Goes(t, "report")
       ELSE Leaves(t) /\ UNCHANGED <<leases, credentials>>
    /\ UNCHANGED <<prava, intents, shared, faults>>

\* finalize_credential: the outcome is reported, and the answer may be lost ...
Finalize(t) ==
    LET c == thread[t].ref
        s == credentials[c].session IN
    /\ thread[t].pc = "report"
    /\ IF s = NoSession \/ credentials[c].aged
       THEN Leaves(t) /\ credentials' = Dropped(c) /\ UNCHANGED <<prava, faults>>
       ELSE /\ prava' = [prava EXCEPT ![s] =
                            IF @ = "awaiting_result" THEN "completed" ELSE @]
            /\ \/ Goes(t, "forget") /\ UNCHANGED faults
               \/ Leaves(t) /\ Fault
            /\ UNCHANGED credentials
    /\ UNCHANGED <<intents, leases, shared>>

\* ... and what is left of the credential is retired.
Retire(t) ==
    /\ thread[t].pc = "forget"
    /\ credentials' = [credentials EXCEPT ![thread[t].ref] = NoCredential]
    /\ Leaves(t)
    /\ UNCHANGED <<prava, intents, leases, shared, faults>>

\* Fifteen minutes pass since the card was put away.
Age(c) ==
    /\ credentials[c].session # NoSession /\ ~credentials[c].aged
    /\ credentials' = [credentials EXCEPT ![c].aged = TRUE]
    /\ UNCHANGED <<prava, intents, thread, leases, shared, faults>>

\* purge_expired_credentials.
Purge ==
    /\ \E c \in References : credentials[c].aged
    /\ credentials' = [c \in References |-> IF credentials[c].aged THEN NoCredential
                                            ELSE credentials[c]]
    /\ UNCHANGED <<prava, intents, thread, leases, shared, faults>>

\* The process restarts: its memory and its threads are gone.
Restart ==
    /\ Fault
    /\ intents' = [s \in Sessions |-> NoIntent]
    /\ credentials' = [c \in References |-> NoCredential]
    /\ thread' = [t \in Threads |-> Idle]
    /\ shared' = shared \cup {s \in Sessions : intents[s].outcome # "none"
                                \/ \E t \in Threads : Polling(t, s)}
    /\ UNCHANGED <<prava, leases>>

PollNext ==
    \E t \in Threads : Poll(t) \/ Publish(t)

CardNext ==
    \/ \E t \in Threads : \/ \E c \in References : Consume(t, c)
                          \/ Pop(t) \/ Finalize(t) \/ Retire(t)
    \/ \E c \in References : Age(c)
    \/ Purge

SessionNext ==
    \E s \in Sessions :
        \/ RegisterIntentContext(s)
        \/ \E state \in {"awaiting_result", "failed", "expired"} : Decide(s, state)

-----------------------------------------------------------------------------
(* The inductive invariant behind the properties                           *)

\* The credentials that were made of one session's card.
CardsOf(s) == {c \in References : credentials[c].session = s /\ credentials[c].card}

\* The user has decided, or the time for it is over.
Decided(s) == prava[s] \in {"awaiting_result", "expired", "completed"}

\* A thread that asks about a session knows it; an approval it has is Prava's.
ThreadInv ==
    \A t \in Threads :
        LET s == thread[t].session IN
        /\ thread[t].pc \in {"poll", "publish", "answered", "order"} => s \in Sessions
        /\ thread[t].pc \in {"poll", "publish"} => intents[s].known
        /\ thread[t].pc = "publish" => Decided(s)
        /\ thread[t].pc = "answered" =>
             /\ thread[t].outcome # "none"
             /\ thread[t].outcome = "approved" => Decided(s)

\* What is known of a session exists; what is not known is empty.
KnownInv ==
    \A s \in Sessions :
        /\ ~intents[s].known => intents[s] = NoIntent
        /\ intents[s].known => prava[s] # "none"
        /\ intents[s].outcome = "approved" => Decided(s)

\* One thread at most polls a session, and none once there is an outcome.
OnePollInv ==
    \A s \in Sessions \ shared :
        /\ \A t, u \in Threads : Polling(t, s) /\ Polling(u, s) => t = u
        /\ \A t \in Threads : Polling(t, s) => intents[s].outcome = "none"

\* A card is found by the last poll, which is about to leave its outcome or has.
OneCardInv ==
    \A s \in Sessions \ shared :
        /\ \A c, d \in CardsOf(s) : c = d
        /\ CardsOf(s) # {} =>
             \/ intents[s].outcome # "none"
             \/ \E t \in Threads : thread[t].pc = "publish" /\ thread[t].session = s

ClientInv ==
    /\ ThreadInv /\ KnownInv /\ OnePollInv /\ OneCardInv
    /\ \A c \in References : leases[c] <= 1

-----------------------------------------------------------------------------
(* Properties                                                              *)

\* consume_credential: "Lease one-time checkout fields exactly once", whichever
\* threads race for them, and however the record ages meanwhile; and a card is
\* kept under one reference, unless two polls found it at once or a restart
\* forgot it: then one card can be handed out under several references.
LeasedOnce ==
    /\ \A c \in References : leases[c] <= 1
    /\ \A s \in Sessions \ shared : Cardinality(CardsOf(s)) <= 1

\* An outcome a caller was given is not changed, unless polls overlapped.
OutcomeIsFinal ==
    [][\A s \in Sessions \ shared' :
         intents[s].outcome # "none" =>
             intents'[s].outcome = intents[s].outcome
             /\ intents'[s].ref = intents[s].ref]_clientVars
=============================================================================
