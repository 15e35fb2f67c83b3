---------------------------- MODULE Classifier ----------------------------
(***************************************************************************)
(* internal/congkong/classifier.go: what the client makes of the result of *)
(* a check-in request.  A body is the one text it carries and the field it *)
(* carries it in; a malformed body carries "other".  What the server means *)
(* by its answers is external, from the codes and texts classifier.go      *)
(* looks for and its tests.                                                *)
(***************************************************************************)
EXTENDS Domain

Statuses == {101, 200, 204, 302, 400, 403, 404, 406, 409, 424, 429, 500, 503}
Fields   == {"result", "data", "message"}
Texts    == {"success", "duplication", "barcode_not_found", "error_bind", "other"}

\* err: the request failed, or its response could not be read to the end.
HTTPResult == [err : {"none", "transport", "body"}, status : Statuses, field : Fields, text : Texts]

Says(r, field, text) == r.field = field /\ r.text = text

\* The branches of Classify that come to one decision are joined.
ClassifyWith(r, lost) ==
  IF lost \/ r.status >= 500 THEN "RETRY"
  ELSE IF \/ r.status = 200 /\ Says(r, "result", "success")
          \/ r.status = 409 /\ Says(r, "data", "duplication") THEN "COMPLETE"
  ELSE IF r.status = 404 /\ ~Says(r, "data", "barcode_not_found") THEN "SUSPEND_READER"
  ELSE IF r.status = 400 /\ Says(r, "message", "error_bind") THEN "HALT_GLOBAL"
  ELSE "DROP"

\* Mutant: a response that was cut short is judged by what there is of it.
MutClassify(r) == ClassifyWith(r, r.err = "transport")

Classify(r) == ClassifyWith(r, r.err # "none")

----------------------------------------------------------------------------
(* The server *)

\* The attendee is checked in now or was before, the tag has no attendee, the
\* check-in is refused, or the answer is no such answer at all.
Routine == {"recorded", "duplicate", "unpaired", "refused", "odd"}

\* What the server may have made of a request; "unheard": its answer is lost.
Outcomes == Routine \cup {"revoked", "bindbug", "trouble", "unheard"}

\* The scan is dealt with: sending it again would change nothing for the better.
Decided == Routine \cup {"revoked"}

\* Result r is what the client gets when the server answers outcome.
Tells(r, outcome) ==
  /\ r.err = "none"
  /\ \/ outcome = "recorded"  /\ r.status = 200 /\ Says(r, "result", "success")
     \/ outcome = "duplicate" /\ r.status = 409 /\ Says(r, "data", "duplication")
     \/ outcome = "unpaired"  /\ r.status = 404 /\ Says(r, "data", "barcode_not_found")
     \/ outcome = "refused"   /\ r.status \in {400, 403, 406, 409, 424, 429} /\ r.text = "other"
     \/ outcome = "odd"       /\ r.status \in {101, 200, 204, 302} /\ r.text = "other"
     \/ outcome = "revoked"   /\ r.status = 404 /\ r.text = "other"
     \/ outcome = "bindbug"   /\ r.status = 400 /\ Says(r, "message", "error_bind")
     \/ outcome = "trouble"   /\ r.status \in {500, 503}

Replies == [outcome \in Outcomes \ {"unheard"} |-> {r \in HTTPResult : Tells(r, outcome)}]

Lost == {r \in HTTPResult : r.err # "none"}
=============================================================================
