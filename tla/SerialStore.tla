---------------------------- MODULE SerialStore ----------------------------
(***************************************************************************)
(* What the transaction layer promises to the handlers and to the browser: *)
(* a store that serves one request at a time.  A request looks at the      *)
(* store at one instant after it began; a writer is applied on the store   *)
(* it looked at, with nobody in between; a request that was answered "ok"  *)
(* was applied, one that was "refused" never is, and one answered "error"  *)
(* may or may not be, then or later, but at most once.  So whoever begins  *)
(* after another was answered sees what that one did.                      *)
(***************************************************************************)
EXTENDS Naturals, Sequences

CONSTANTS
    Request, Writer,        \* the requests, and those of them that write
    None

VARIABLES
    db,         \* the writers applied so far, in order: the state of the store
    begun,      \* the requests that began
    view,       \* the store each request looked at, or None
    result,     \* what its handler worked with: two reads of the store
    answer      \* what the caller was told

serialVars == <<db, begun, view, result, answer>>

Applied(r) == \E i \in DOMAIN db : db[i] = r

Init ==
    /\ db = <<>>
    /\ begun = {}
    /\ view = [r \in Request |-> None]
    /\ result = [r \in Request |-> None]
    /\ answer = [r \in Request |-> "pending"]

Begin(r) ==
    /\ r \notin begun
    /\ begun' = begun \cup {r}
    /\ UNCHANGED <<db, view, result, answer>>

Look(r) ==
    /\ r \in begun
    /\ answer[r] = "pending"
    /\ view[r] = None
    /\ view' = [view EXCEPT ![r] = db]
    /\ UNCHANGED <<db, begun, result, answer>>

Apply(w) ==
    /\ w \in Writer
    /\ view[w] = db
    /\ ~Applied(w)
    /\ answer[w] \in {"pending", "error"}
    /\ db' = Append(db, w)
    /\ UNCHANGED <<begun, view, result, answer>>

AnswerOk(r) ==
    /\ answer[r] = "pending"
    /\ r \in Writer => Applied(r)
    /\ view[r] # None
    /\ result' = [result EXCEPT ![r] = <<view[r], view[r]>>]
    /\ answer' = [answer EXCEPT ![r] = "ok"]
    /\ UNCHANGED <<db, begun, view>>

AnswerRefused(r) ==
    /\ answer[r] = "pending"
    /\ ~Applied(r)
    /\ view[r] # None
    /\ result' = [result EXCEPT ![r] = <<view[r], view[r]>>]
    /\ answer' = [answer EXCEPT ![r] = "refused"]
    /\ UNCHANGED <<db, begun, view>>

AnswerError(r) ==
    /\ answer[r] = "pending"
    /\ begun' = begun \cup {r}
    /\ answer' = [answer EXCEPT ![r] = "error"]
    /\ UNCHANGED <<db, view, result>>

Next ==
    \E r \in Request :
        \/ Begin(r) \/ Look(r) \/ Apply(r)
        \/ AnswerOk(r) \/ AnswerRefused(r) \/ AnswerError(r)

Spec == Init /\ [][Next]_serialVars
=============================================================================
