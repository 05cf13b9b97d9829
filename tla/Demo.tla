-------------------------------- MODULE Demo --------------------------------
(***************************************************************************)
(* The demo page (packages/demo): a reducer holds what the page shows, and *)
(* the handlers of dropped files, samples and CSV downloads suspend on the *)
(* Turnstile widget, the proxies and the worker's event stream and come    *)
(* back to a page that may show something else by then.  The worker is the *)
(* contract its job surface keeps (JobContract, which Jobs implements).    *)
(*                                                                         *)
(* A file is the call of handleFile that carries it; its content is never  *)
(* looked at, only its class (fits, too large, wrong type).                *)
(***************************************************************************)
EXTENDS Integers, FiniteSets

CONSTANTS
    Call,      \* calls of handleFile and handleSample, one per file
    Csv,       \* presses of "Download CSV"
    MaxToken,  \* bound: Turnstile tokens the widget hands out
    Ttl,       \* how long the worker keeps a settled job
    MaxTime,   \* bound of the clock
    None       \* no call, no token

ASSUME DemoAssumption ==
    /\ MaxToken \in Nat /\ Ttl \in Nat /\ MaxTime \in Nat
    /\ None \notin Call \cup Csv \cup 1..MaxToken
    /\ Call \cap Csv = {}

VARIABLES
    view,     \* DemoState: what the page shows
    busy,     \* the ref that keeps a second handleFile out
    pc,       \* where each call is suspended
    sample,   \* the calls made by "try a sample"
    token,    \* the Turnstile token each call got
    csvPc,    \* where each CSV download is suspended
    csv,      \* ResultActions: the download it waits for, and whether one failed
    widget,   \* the token the widget holds, None while it solves a challenge
    issued,   \* how many tokens the widget has had
    sent,     \* the uploads each token was sent with
    canned,   \* calls whose job was answered with the over-limit sample
    now, phase, since   \* the worker, as JobContract has it

pageVars == <<view, busy, pc, sample, csvPc, csv>>
tokenVars == <<token, widget, issued, sent>>
workerVars == <<now, phase, since>>
vars == <<pageVars, tokenVars, canned, workerVars>>

Worker == INSTANCE JobContract WITH Job <- Call, Never <- -1

Token == 1..MaxToken
Codes == {"too_large", "wrong_type", "unauthorized", "rate_limited", "encrypted", "empty",
          "drift", "reconcile", "unsupported", "server_error", "network"}

(* One record for the union of the reducer's states: file and data are the *)
(* calls whose file and whose response are shown, progress the call whose  *)
(* milestone the bar shows.                                                *)
View == [status : {"idle", "dragover", "parsing", "result", "error"},
         file : Call \cup {None}, sample : BOOLEAN, progress : Call \cup {None},
         data : Call \cup {None}, overLimit : BOOLEAN, code : Codes \cup {"none"}]

Idle == [status |-> "idle", file |-> None, sample |-> FALSE, progress |-> None,
         data |-> None, overLimit |-> FALSE, code |-> "none"]

Parsing(c, s) == [Idle EXCEPT !.status = "parsing", !.file = c, !.sample = s]
Failed(code, f) == [Idle EXCEPT !.status = "error", !.code = code, !.file = f]

(* Deviation: a result is shown whatever the page shows by then.           *)
SucceededAnyway(c) ==
    [view EXCEPT !.status = "result", !.progress = None, !.data = c, !.code = "none",
                 !.overLimit = c \in canned]

(* PARSE_PROGRESS and PARSE_SUCCEEDED: only a page that is parsing listens. *)
Progressed(c) ==
    IF view.status = "parsing" THEN [view EXCEPT !.progress = c] ELSE view
Succeeded(c) ==
    IF view.status = "parsing"
    THEN [view EXCEPT !.status = "result", !.progress = None, !.data = c,
                      !.overLimit = c \in canned]
    ELSE view

(* ResultActions is unmounted with the result, and its state with it.      *)
NoCsv == [waits |-> None, failed |-> FALSE]
Show(v) ==
    /\ view' = v
    /\ csv' = IF v.status = "result" /\ view.status = "result" THEN csv ELSE NoCsv
-----------------------------------------------------------------------------
(* What the worker says of a failed parse, and the code the page makes of  *)
(* it.  A failed job carries the envelope a synchronous refusal would.     *)
Classes == {"EncryptedSourceError", "EmptyStatementError", "LayoutDriftError",
            "ReconciliationError", "ParseError", "none"}

CodeForStatus(status) ==
    CASE status = 401 -> "unauthorized"
      [] status = 413 -> "too_large"
      [] status = 422 -> "unsupported"
      [] status = 429 -> "rate_limited"
      [] OTHER        -> "server_error"

CodeForResponse(status, class, covered) ==
    CASE class = "EncryptedSourceError" -> "encrypted"
      [] class = "EmptyStatementError"  -> IF covered THEN "empty" ELSE "drift"
      [] class = "LayoutDriftError"     -> "drift"
      [] class = "ReconciliationError"  -> "reconcile"
      [] class = "ParseError"           -> "unsupported"
      [] OTHER                          -> CodeForStatus(status)

CodeForJobFailure(class, covered) == CodeForResponse(422, class, covered)
-----------------------------------------------------------------------------
(* The page: which handlers each view offers.  The file picker outlives    *)
(* the disabled button that opened it; it goes with the drop zone.         *)
TakesDrop == view.status \in {"idle", "dragover"}
TakesPick == view.status \in {"idle", "dragover", "parsing"}
OffersSample == view.status \in {"idle", "dragover"}
OffersAnotherBank == view.status = "result" /\ view.sample
OffersCsv == view.status = "result" /\ csv.waits = None
OffersParseAnother == view.status = "result"
OffersTryAnother == view.status = "error"

Init ==
    /\ view = Idle /\ busy = FALSE
    /\ pc = [c \in Call |-> "unused"] /\ sample = {}
    /\ csvPc = [d \in Csv |-> "unused"] /\ csv = NoCsv
    /\ token = [c \in Call \cup Csv |-> None]
    /\ widget = None /\ issued = 0 /\ sent = [t \in Token |-> {}]
    /\ canned = {}
    /\ Worker!Init

DragEnter ==
    /\ view.status = "idle"
    /\ view' = [Idle EXCEPT !.status = "dragover"]
    /\ UNCHANGED <<busy, pc, sample, csvPc, csv, tokenVars, canned, workerVars>>

DragLeave ==
    /\ view.status = "dragover"
    /\ view' = Idle
    /\ UNCHANGED <<busy, pc, sample, csvPc, csv, tokenVars, canned, workerVars>>

(* Deviation: a second file is not kept out.                               *)
HandleFileUnguarded(c, s, class, v) ==
    /\ pc' = [pc EXCEPT ![c] = IF class = "fits" THEN "token" ELSE "done"]
    /\ Show(IF class = "fits" THEN Parsing(c, s) ELSE Failed(class, c))
    /\ busy' = (busy \/ class = "fits")

(* handleFile up to its first await, on a page that shows v: a second file *)
(* is ignored, one that does not qualify is refused, else the spinner.     *)
HandleFile(c, s, class, v) ==
    \/ /\ busy
       /\ pc' = [pc EXCEPT ![c] = "done"]
       /\ Show(v) /\ UNCHANGED busy
    \/ /\ ~busy /\ class # "fits"
       /\ pc' = [pc EXCEPT ![c] = "done"]
       /\ Show(Failed(class, c)) /\ UNCHANGED busy
    \/ /\ ~busy /\ class = "fits"
       /\ pc' = [pc EXCEPT ![c] = "token"]
       /\ Show(Parsing(c, s)) /\ busy' = TRUE

Drop(c) ==
    /\ TakesDrop /\ pc[c] = "unused"
    /\ \E class \in {"fits", "too_large", "wrong_type"} : HandleFile(c, FALSE, class, Idle)
    /\ UNCHANGED <<sample, csvPc, tokenVars, canned, workerVars>>

Pick(c) ==
    /\ TakesPick /\ pc[c] = "unused"
    /\ \E class \in {"fits", "too_large", "wrong_type"} : HandleFile(c, FALSE, class, view)
    /\ UNCHANGED <<sample, csvPc, tokenVars, canned, workerVars>>

ClickSample(c) ==
    /\ OffersSample \/ OffersAnotherBank
    /\ pc[c] = "unused"
    /\ pc' = [pc EXCEPT ![c] = "fetching"]
    /\ sample' = sample \cup {c}
    /\ UNCHANGED <<view, busy, csvPc, csv, tokenVars, canned, workerVars>>

(* The fixture through the proxy: a PDF, or none when it cannot be had.    *)
SampleProxy == {200, 502}
FetchSample == {status = 200 : status \in SampleProxy}

SampleAnswers(c) ==
    /\ pc[c] = "fetching"
    /\ \E file \in FetchSample :
         \/ file /\ HandleFile(c, TRUE, "fits", view)
         \/ /\ ~file
            /\ Show(Failed("network", None))
            /\ pc' = [pc EXCEPT ![c] = "done"] /\ UNCHANGED busy
    /\ UNCHANGED <<sample, csvPc, tokenVars, canned, workerVars>>

(* Deviation: the spinner can be dismissed.                                *)
ResetAlways ==
    /\ view.status \in {"parsing", "result", "error"}
    /\ Show(Idle)
    /\ UNCHANGED <<busy, pc, sample, csvPc, tokenVars, canned, workerVars>>

Reset ==
    /\ OffersParseAnother \/ OffersTryAnother
    /\ Show(Idle)
    /\ UNCHANGED <<busy, pc, sample, csvPc, tokenVars, canned, workerVars>>
-----------------------------------------------------------------------------
(* Cloudflare's widget: it solves one challenge per reset.                 *)
Solve ==
    /\ widget = None /\ issued < MaxToken
    /\ issued' = issued + 1 /\ widget' = issued + 1
    /\ UNCHANGED <<pageVars, token, sent, canned, workerVars>>

(* getToken: the widget's token, or none when it takes longer than the     *)
(* timeout.                                                                *)
GetToken(u) ==
    /\ token' = [token EXCEPT ![u] = widget]
    /\ UNCHANGED <<widget, issued, sent>>

(* Deviation: the token is awaited without a timeout.                      *)
AwaitTokenForever(c) ==
    /\ pc[c] = "token" /\ widget # None /\ GetToken(c)
    /\ pc' = [pc EXCEPT ![c] = "submit"]
    /\ UNCHANGED <<view, busy, sample, csvPc, csv, canned, workerVars>>

AwaitToken(c) ==
    /\ pc[c] = "token" /\ GetToken(c)
    /\ pc' = [pc EXCEPT ![c] = "submit"]
    /\ UNCHANGED <<view, busy, sample, csvPc, csv, canned, workerVars>>

(* The upload leaves with the token it got, which nothing uses after it.   *)
Send(u) ==
    /\ sent' = IF token[u] = None THEN sent ELSE [sent EXCEPT ![token[u]] = @ \cup {u}]
    /\ token' = [token EXCEPT ![u] = None]

(* Cloudflare vouches for a token once.                                    *)
Verified(u) == token[u] # None /\ sent[token[u]] = {}

(* Deviation: the widget is reset after a success only.                    *)
FailKeepsToken(c, code) ==
    /\ UNCHANGED widget
    /\ Show(Failed(code, c))
    /\ busy' = FALSE /\ pc' = [pc EXCEPT ![c] = "done"]

(* The end of handleFile: the widget is reset, the page told, busy let go. *)
Fail(c, code) ==
    /\ widget' = None
    /\ Show(Failed(code, c))
    /\ busy' = FALSE /\ pc' = [pc EXCEPT ![c] = "done"]

Succeed(c) ==
    /\ widget' = None
    /\ Show(Succeeded(c))
    /\ busy' = FALSE /\ pc' = [pc EXCEPT ![c] = "done"]

(* The submit through the proxy.  A refusal is the worker's own, or the    *)
(* proxy's when it is misconfigured or cannot reach the worker.            *)
ProxyRefusals == {500, 502}
WorkerRefusals == {401, 413, 422, 429, 500}

SubmitRefused(c) ==
    /\ pc[c] = "submit" /\ Send(c)
    /\ \E status \in WorkerRefusals \cup ProxyRefusals :
         Fail(c, CodeForResponse(status, "none", FALSE))
    /\ UNCHANGED <<sample, csvPc, issued, canned, workerVars>>

SubmitAccepted(c) ==
    /\ pc[c] = "submit" /\ Verified(c) /\ Send(c)
    /\ \/ Worker!Accept(c) /\ UNCHANGED canned
       \/ Worker!Settle(c, "none", "ready") /\ canned' = canned \cup {c}
    /\ pc' = [pc EXCEPT ![c] = "stream"]
    /\ UNCHANGED <<view, busy, sample, csvPc, csv, widget, issued>>

(* The connection fails, before the worker has the upload or after.        *)
SubmitLost(c) ==
    /\ pc[c] = "submit" /\ Send(c)
    /\ UNCHANGED workerVars \/ (Verified(c) /\ Worker!Accept(c))
    /\ Fail(c, "network")
    /\ UNCHANGED <<sample, csvPc, issued, canned>>
-----------------------------------------------------------------------------
(* The event stream: progress while the job runs, one result event when it *)
(* has settled, an error when the connection breaks or the job is gone.    *)
StreamProgress(c) ==
    /\ pc[c] = "stream" /\ phase[c] = "pending"
    /\ Show(Progressed(c))
    /\ UNCHANGED <<busy, pc, sample, csvPc, tokenVars, canned, workerVars>>

StreamResult(c) ==
    /\ pc[c] = "stream"
    /\ \/ phase[c] = "ready" /\ Succeed(c)
       \/ /\ phase[c] = "failed"
          /\ \E class \in Classes, covered \in BOOLEAN : Fail(c, CodeForJobFailure(class, covered))
    /\ UNCHANGED <<sample, csvPc, token, issued, sent, canned, workerVars>>

StreamError(c) ==
    /\ pc[c] = "stream"
    /\ Fail(c, "network")
    /\ UNCHANGED <<sample, csvPc, token, issued, sent, canned, workerVars>>
-----------------------------------------------------------------------------
(* handleCsv posts the file again, with a token of its own.                *)
ClickCsv(d) ==
    /\ OffersCsv /\ csvPc[d] = "unused"
    /\ csvPc' = [csvPc EXCEPT ![d] = "token"]
    /\ csv' = [waits |-> d, failed |-> FALSE]
    /\ UNCHANGED <<view, busy, pc, sample, tokenVars, canned, workerVars>>

CsvToken(d) ==
    /\ csvPc[d] = "token" /\ GetToken(d)
    /\ csvPc' = [csvPc EXCEPT ![d] = "post"]
    /\ UNCHANGED <<view, busy, pc, sample, csv, canned, workerVars>>

CsvPost(d) ==
    /\ csvPc[d] = "post" /\ Send(d)
    /\ csvPc' = [csvPc EXCEPT ![d] = IF Verified(d) THEN "sent" ELSE "refused"]
    /\ UNCHANGED <<view, busy, pc, sample, csv, widget, issued, canned, workerVars>>

CsvAnswer(d) ==
    /\ csvPc[d] \in {"sent", "refused"}
    /\ \E ok \in {csvPc[d] = "sent", FALSE} :
         csv' = IF csv.waits = d THEN [waits |-> None, failed |-> ~ok] ELSE csv
    /\ widget' = None
    /\ csvPc' = [csvPc EXCEPT ![d] = "done"]
    /\ UNCHANGED <<view, busy, pc, sample, token, issued, sent, canned, workerVars>>
-----------------------------------------------------------------------------
(* The worker goes on with its jobs and its clock.                         *)
WorkerStep ==
    /\ \/ \E c \in Call : Worker!Resolve(c)
       \/ Worker!Stale # {} /\ Worker!Forget
       \/ now < MaxTime /\ Worker!Pass
    /\ UNCHANGED <<pageVars, tokenVars, canned>>

Handle(c) ==
    \/ Drop(c) \/ Pick(c) \/ ClickSample(c) \/ SampleAnswers(c)
    \/ AwaitToken(c) \/ SubmitRefused(c) \/ SubmitAccepted(c) \/ SubmitLost(c)
    \/ StreamProgress(c) \/ StreamResult(c) \/ StreamError(c)

HandleCsv(d) == ClickCsv(d) \/ CsvToken(d) \/ CsvPost(d) \/ CsvAnswer(d)

Next ==
    \/ DragEnter \/ DragLeave \/ Reset
    \/ \E c \in Call : Handle(c)
    \/ \E d \in Csv : HandleCsv(d)
    \/ Solve
    \/ WorkerStep

(* The promises of one call settle: the token's by its timeout, the        *)
(* submit's by an answer or an error, the stream's by the result event of  *)
(* a settled job or by an error when the job is gone; and the worker       *)
(* settles its jobs, as its contract says.                                 *)
Settles(c) ==
    /\ WF_vars(SampleAnswers(c))
    /\ WF_vars(AwaitToken(c))
    /\ WF_vars(SubmitRefused(c) \/ SubmitAccepted(c) \/ SubmitLost(c))
    /\ WF_vars(StreamResult(c))
    /\ WF_vars(phase[c] = "gone" /\ StreamError(c))
    /\ WF_vars(Worker!Resolve(c) /\ UNCHANGED <<pageVars, tokenVars, canned>>)

Spec == Init /\ [][Next]_vars /\ \A c \in Call : Settles(c)
-----------------------------------------------------------------------------
(* The type invariant.                                                     *)
TypeOK ==
    /\ view \in View /\ busy \in BOOLEAN
    /\ view.status = "error" <=> view.code # "none"
    /\ pc \in [Call -> {"unused", "fetching", "token", "submit", "stream", "done"}]
    /\ sample \subseteq Call /\ canned \subseteq Call
    /\ csvPc \in [Csv -> {"unused", "token", "post", "sent", "refused", "done"}]
    /\ csv \in [waits : Csv \cup {None}, failed : BOOLEAN]
    /\ token \in [Call \cup Csv -> Token \cup {None}]
    /\ widget \in Token \cup {None} /\ issued \in 0..MaxToken
    /\ sent \in [Token -> SUBSET (Call \cup Csv)]
    /\ now \in Nat
    /\ phase \in [Call -> {"none", "pending", "ready", "failed", "gone"}]
    /\ since \in [Call -> Nat \cup {-1}]

InFlight == {c \in Call : pc[c] \in {"token", "submit", "stream"}}

(* A spinner has the upload it names behind it, and that upload is the     *)
(* only one: the busy ref is up exactly while one is in flight, whatever   *)
(* pickers, samples and resets did in the meantime.                        *)
SpinnerHasUpload ==
    /\ \A c, d \in InFlight : c = d
    /\ busy <=> InFlight # {}
    /\ view.status = "parsing" => view.file \in InFlight

(* What is shown under a file's name is that file's: the bar's milestones, *)
(* and the result, which the page calls sample data when the worker        *)
(* answered with its canned statement instead.                             *)
ShowsOwnFile ==
    /\ view.progress \in {None, view.file}
    /\ view.status = "result" =>
         /\ view.data = view.file
         /\ view.overLimit <=> view.file \in canned
         /\ view.sample <=> view.file \in sample

(* No two uploads are sent with one Turnstile token: the widget is reset   *)
(* after every end of an upload, so that Cloudflare vouches for the next.  *)
ParsesHaveOwnToken ==
    \A t \in Token : \A c, d \in sent[t] \cap Call : c = d

(* The same of every use the page makes of a token, the CSV downloads      *)
(* included, as the widget's comment has it.                               *)
TokenSingleUse ==
    \A t \in Token : \A u, v \in sent[t] : u = v

(* A spinner goes when its upload has come to an end, and for one other    *)
(* reason: a sample asked for earlier could not be fetched, and its error  *)
(* takes the page from the upload, whose result is then never shown.       *)
SpinnerLeaves ==
    [][view.status = "parsing" /\ view'.status # "parsing" =>
         \/ pc'[view.file] = "done"
         \/ \E c \in sample : pc[c] = "fetching" /\ pc'[c] = "done"]_vars

(* "Any unexpected throw must still reach a terminal state, never leave    *)
(* the spinner hanging": every upload ends, and with it every spinner,     *)
(* though the widget may never have a token and the job may be forgotten.  *)
UploadEnds == \A c \in Call : c \in InFlight ~> pc[c] = "done"
=============================================================================
