----------------------------- MODULE Graduations -----------------------------
(***************************************************************************)
(* The Kafka consumer that makes alumni of graduates.  It writes the       *)
(* registration logs and accounts that registrations write too.            *)
(***************************************************************************)
EXTENDS Alumni

CONSTANTS
    MaxGraduations, \* bound: messages of the graduation topic
    MaxRestarts     \* bound: restarts of the consumer

ASSUME GraduationBounds == MaxGraduations \in Nat /\ MaxRestarts \in Nat

GraduationTables == Merged(AlumniTables, [
    topic |-> <<>>,     \* graduation.verified.v1: the graduate, None in an empty message
    first |-> None,     \* messages that were there when the group began
    position |-> 0,     \* messages the consumer has handled or passed over
    offset |-> None,    \* messages the group has committed
    dropped |-> {},     \* messages whose handler logged an error
    restarts |-> 0])

Consuming(w) == service = "graduations" /\ ~Idle(w) /\ arg[w].type = "graduated"

ConsumerIdle == \A w \in Workers : ~Consuming(w)

\* A graduation, or a message without a value, is published by a service
\* outside this repository.
Graduate == \E actor \in Alumni \cup {None} :
    /\ service = "graduations" /\ Len(db.topic) < MaxGraduations
    /\ db' = [db EXCEPT !.topic = Append(@, actor)]
    /\ UNCHANGED <<service, configured, todo, arg>>

\* onModuleInit subscribes with fromBeginning: false: a group that has never
\* committed begins at the end of the topic.
Subscribe ==
    /\ service = "graduations" /\ db.first = None
    /\ db' = [db EXCEPT !.first = Len(db.topic), !.position = Len(db.topic)]
    /\ UNCHANGED <<service, configured, todo, arg>>

\* An empty message is passed over without a word.
messageRoute(message) == IF db.topic[message] = None THEN <<"handled">> ELSE route("graduated")

\* Mutation: the position moves when the message is handed over.
EachMessageAtMostOnce(w) ==
    /\ db.first # None /\ db.position < Len(db.topic)
    /\ ConsumerIdle
    /\ Take("graduations", w, messageRoute(db.position + 1), [type |-> "graduated", id |-> None,
           value |-> [actor |-> db.topic[db.position + 1], message |-> db.position + 1]])
    /\ db' = [db EXCEPT !.position = @ + 1]

\* eachMessage: messages are handled one at a time, in order.
EachMessage(w) ==
    LET message == db.position + 1
    IN  /\ service = "graduations" /\ db.first # None /\ message <= Len(db.topic)
        /\ ConsumerIdle
        /\ Take("graduations", w, messageRoute(message), [type |-> "graduated", id |-> None,
               value |-> [actor |-> db.topic[message], message |-> message]])
        /\ UNCHANGED db

\* PostgreSQL's exception is caught by eachMessage, Supabase's error by
\* logGraduationEvent: either way the message counts as handled.
SwallowError(w) ==
    /\ Consuming(w)
    /\ At(w, "insertLog") \/ At(w, "event")
    /\ GoOn(w, <<"handled">>, arg[w])
    /\ db' = [db EXCEPT !.dropped = @ \cup {arg[w].value.message}]

Handled(w) ==
    /\ At(w, "handled")
    /\ Proceed(w)
    /\ db' = [db EXCEPT !.position = arg[w].value.message]

\* kafkajs commits what was handled from time to time.
AutoCommit ==
    /\ service = "graduations"
    /\ db.position \notin {db.offset, db.first, 0}
    /\ db' = [db EXCEPT !.offset = db.position]
    /\ UNCHANGED <<service, configured, todo, arg>>

\* The process stops, in the middle of a message or not, and starts again
\* from the committed offset; without one it begins at the end again.
RestartConsumer ==
    LET from == IF db.offset = None THEN Len(db.topic) ELSE db.offset
    IN  /\ service = "graduations" /\ db.first # None /\ db.restarts < MaxRestarts
        /\ todo' = [w \in Workers |-> IF Consuming(w) THEN <<>> ELSE todo[w]]
        /\ arg' = [w \in Workers |-> IF Consuming(w) THEN None ELSE arg[w]]
        /\ db' = [db EXCEPT !.restarts = @ + 1, !.position = from,
                            !.first = IF db.offset = None THEN from ELSE @]
        /\ UNCHANGED <<service, configured>>

GraduationsInit == Start("graduations", {"alumni"}, GraduationTables)

GraduationsNext ==
    \/ Graduate \/ Subscribe \/ AutoCommit \/ RestartConsumer
    \/ \E w \in Workers :
        \/ EachMessage(w) \/ SwallowError(w) \/ Handled(w)
        \/ service = "graduations" /\ ~Consuming(w) /\ Fail(w)

\* The logs of a graduation message.
logsOf(message) == {row \in db.logs : row.message = message}

\* At-least-once consumption: every graduation that the consumer has passed
\* was logged or its handler reported an error, an empty message leaves
\* neither, and no message is logged more often than once per start of the
\* consumer.
GraduationAccount == service = "graduations" /\ db.first # None =>
    \A m \in 1 .. Len(db.topic) :
        /\ db.first < m /\ m <= db.position =>
              (db.topic[m] # None <=> logsOf(m) # {} \/ m \in db.dropped)
        /\ Cardinality(logsOf(m)) <= 1 + db.restarts
=============================================================================
