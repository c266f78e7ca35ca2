------------------------------ MODULE Requests ------------------------------
(***************************************************************************)
(* What the services of the campus have in common.  A handler is the list  *)
(* of statements it awaits; between two of them other requests run, the    *)
(* connection can fail and the process can stop.  The services share no    *)
(* table, so that a behaviour is about one of them, named by service.      *)
(***************************************************************************)
EXTENDS Naturals, Sequences, FiniteSets

CONSTANTS
    Workers,    \* requests that can be in flight at the same time
    None        \* SQL null, undefined

ASSUME WorkersAreFinite == IsFiniteSet(Workers) /\ Workers # {}
ASSUME NoneIsNoNumber == None \notin Nat

VARIABLES
    service,    \* the service whose requests run
    configured, \* services whose *_DATABASE_URL is set: they use PostgreSQL
    todo,       \* the statements each request has still to run
    arg,        \* the local variables of each request
    db          \* the tables, by name

vars == <<service, configured, todo, arg, db>>

\* usePostgres() of a service; without it the service uses Supabase.
usePostgres(s) == s \in configured

\* { ...record, ...changes }: the changes win.
Merged(record, changes) == [f \in DOMAIN record \cup DOMAIN changes |->
    IF f \in DOMAIN changes THEN changes[f] ELSE record[f]]

Idle(w) == todo[w] = <<>>

\* The next statement of the request is step.
At(w, step) == todo[w] # <<>> /\ Head(todo[w]) = step

\* A request arrives at service s: its handler will run these statements.
Take(s, w, steps, locals) ==
    /\ service = s
    /\ Idle(w)
    /\ todo' = [todo EXCEPT ![w] = steps]
    /\ arg' = [arg EXCEPT ![w] = locals]
    /\ UNCHANGED <<service, configured>>

\* The handler goes on with the statements steps; after the last one it
\* answers and its local variables are gone.
GoOn(w, steps, locals) ==
    /\ todo' = [todo EXCEPT ![w] = steps]
    /\ arg' = [arg EXCEPT ![w] = IF steps = <<>> THEN None ELSE locals]
    /\ UNCHANGED <<service, configured>>

Proceed(w) == GoOn(w, Tail(todo[w]), arg[w])
ProceedWith(w, locals) == GoOn(w, Tail(todo[w]), locals)
Answer(w) == GoOn(w, <<>>, None)

\* A request that one statement is enough for.
Serve(s, w) ==
    /\ service = s
    /\ Idle(w)
    /\ UNCHANGED <<service, configured, todo, arg>>

\* The statement fails and the handler throws, the client gives up, or the
\* process stops: what was written stays.
Fail(w) ==
    /\ ~Idle(w)
    /\ Answer(w)
    /\ UNCHANGED db

\* Init of a service that starts with these tables and can use PostgreSQL for
\* any of these databases.
Start(s, databases, tables) ==
    /\ service = s
    /\ configured \in SUBSET databases
    /\ todo = [w \in Workers |-> <<>>]
    /\ arg = [w \in Workers |-> None]
    /\ db = tables
=============================================================================
