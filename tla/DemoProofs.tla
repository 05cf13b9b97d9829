----------------------------- MODULE DemoProofs -----------------------------
(***************************************************************************)
(* Theorems about Demo, for any number of files, downloads and tokens.     *)
(*                                                                         *)
(* Everything rests on the busy ref: it is up exactly while one upload is  *)
(* in flight, so an upload that comes back finds its own spinner or none,  *)
(* and the widget it resets was last used by itself.                       *)
(***************************************************************************)
EXTENDS Demo, TLAPS

USE DemoAssumption

CallPc == {"unused", "fetching", "token", "submit", "stream", "done"}

(* A file whose name is shown has been handled, and was called a sample    *)
(* when it was one; a sample is asked for before it is fetched.            *)
SamplesKnown ==
    /\ \A c \in sample : pc[c] # "unused"
    /\ \A c \in Call : pc[c] = "fetching" => c \in sample

NamesOwnFile ==
    /\ view.status = "parsing" =>
         /\ view.progress \in {None, view.file}
         /\ view.sample <=> view.file \in sample
    /\ view.status # "parsing" => view.progress = None
    /\ view.status = "result" =>
         /\ view.file \in Call /\ pc[view.file] = "done"
         /\ view.data = view.file
         /\ view.overLimit <=> view.file \in canned
         /\ view.sample <=> view.file \in sample

(* A token that a finished upload was sent with is neither in the widget   *)
(* nor with an upload in flight.                                           *)
TokensUsed ==
    /\ \A t \in Token : sent[t] # {} => t <= issued
    /\ widget # None => widget <= issued
    /\ \A u \in Call \cup Csv : token[u] # None => token[u] <= issued
    /\ \A t \in Token : \A c \in sent[t] \cap Call : pc[c] \in {"stream", "done"}
    /\ \A c \in Call : pc[c] \in {"unused", "fetching", "token"} => token[c] = None
    /\ \A t \in Token : \A c \in sent[t] \cap Call :
         pc[c] = "done" => widget # t /\ \A d \in InFlight : token[d] # t

DemoInv ==
    /\ TypeOK /\ SpinnerHasUpload
    /\ SamplesKnown /\ NamesOwnFile
    /\ TokensUsed /\ ParsesHaveOwnToken

-----------------------------------------------------------------------------
(* The views a handler can leave.                                          *)
LEMMA CodeTypes ==
  ASSUME NEW status, NEW class, NEW covered
  PROVE  /\ CodeForResponse(status, class, covered) \in Codes
         /\ CodeForJobFailure(class, covered) \in Codes
  BY DEF CodeForResponse, CodeForJobFailure, CodeForStatus, Codes

LEMMA IdleView ==
  /\ Idle \in View /\ Idle.status = "idle" /\ Idle.code = "none"
  /\ Idle.progress = None /\ Idle.file = None
  BY DEF Idle, View

LEMMA ParsingView ==
  ASSUME NEW c \in Call, NEW s \in BOOLEAN
  PROVE  /\ Parsing(c, s) \in View /\ Parsing(c, s).status = "parsing"
         /\ Parsing(c, s).code = "none" /\ Parsing(c, s).progress = None
         /\ Parsing(c, s).file = c /\ Parsing(c, s).sample = s
  BY DEF Parsing, Idle, View

LEMMA FailedView ==
  ASSUME NEW code \in Codes, NEW f \in Call \cup {None}
  PROVE  /\ Failed(code, f) \in View /\ Failed(code, f).status = "error"
         /\ Failed(code, f).code # "none" /\ Failed(code, f).progress = None
  BY DEF Failed, Idle, View, Codes

LEMMA ProgressedView ==
  ASSUME view \in View, NEW c \in Call, view.status = "error" <=> view.code # "none"
  PROVE  /\ Progressed(c) \in View
         /\ view.status # "parsing" => Progressed(c) = view
         /\ view.status = "parsing" =>
              /\ Progressed(c).status = "parsing" /\ Progressed(c).code = "none"
              /\ Progressed(c).progress = c
              /\ Progressed(c).file = view.file /\ Progressed(c).sample = view.sample
  BY DEF Progressed, View

LEMMA SucceededView ==
  ASSUME view \in View, NEW c \in Call, view.status = "error" <=> view.code # "none"
  PROVE  /\ Succeeded(c) \in View
         /\ view.status # "parsing" => Succeeded(c) = view
         /\ view.status = "parsing" =>
              /\ Succeeded(c).status = "result" /\ Succeeded(c).code = "none"
              /\ Succeeded(c).progress = None /\ Succeeded(c).data = c
              /\ Succeeded(c).file = view.file /\ Succeeded(c).sample = view.sample
              /\ Succeeded(c).overLimit <=> c \in canned
<1>b. PICK b \in BOOLEAN : b = (c \in canned)
  <2>1. CASE c \in canned
    <3>1. TRUE = (c \in canned)
      BY <2>1
    <3> QED
      BY <3>1
  <2>2. CASE c \notin canned
    <3>1. FALSE = (c \in canned)
      BY <2>2
    <3> QED
      BY <3>1
  <2> QED
    BY <2>1, <2>2
<1> DEFINE v == [view EXCEPT !.status = "result", !.progress = None, !.data = c,
                             !.overLimit = b]
<1>1. CASE view.status # "parsing"
  BY <1>1 DEF Succeeded
<1>2. CASE view.status = "parsing"
  <2>1. Succeeded(c) = v
    BY <1>2, <1>b DEF Succeeded
  <2>2. v \in View
    BY DEF View
  <2>3. /\ v.status = "result" /\ v.code = view.code /\ v.progress = None /\ v.data = c
        /\ v.file = view.file /\ v.sample = view.sample
        /\ v.overLimit = b
    BY DEF View
  <2> QED
    BY <1>2, <1>b, <2>1, <2>2, <2>3
<1> QED
  BY <1>1, <1>2

LEMMA CsvType ==
  ASSUME csv \in [waits : Csv \cup {None}, failed : BOOLEAN], NEW v, Show(v)
  PROVE  view' = v /\ csv' \in [waits : Csv \cup {None}, failed : BOOLEAN]
  BY DEF Show, NoCsv
-----------------------------------------------------------------------------
(* The invariant in the parts that steps can be told apart by.             *)
PageType ==
    /\ view \in View /\ busy \in BOOLEAN
    /\ view.status = "error" <=> view.code # "none"
    /\ pc \in [Call -> CallPc]
    /\ sample \subseteq Call /\ canned \subseteq Call
    /\ csv \in [waits : Csv \cup {None}, failed : BOOLEAN]
CsvPcType == csvPc \in [Csv -> {"unused", "token", "post", "sent", "refused", "done"}]
TokenType ==
    /\ token \in [Call \cup Csv -> Token \cup {None}]
    /\ widget \in Token \cup {None} /\ issued \in 0..MaxToken
    /\ sent \in [Token -> SUBSET (Call \cup Csv)]
WorkerType ==
    /\ now \in Nat
    /\ phase \in [Call -> {"none", "pending", "ready", "failed", "gone"}]
    /\ since \in [Call -> Nat \cup {-1}]

PageInv == PageType /\ SpinnerHasUpload /\ SamplesKnown /\ NamesOwnFile
TokenInv == TokenType /\ TokensUsed /\ ParsesHaveOwnToken

LEMMA DemoParts == DemoInv <=> PageInv /\ TokenInv /\ CsvPcType /\ WorkerType
  BY DEF DemoInv, PageInv, TokenInv, CsvPcType, WorkerType, TypeOK, PageType,
         TokenType, CallPc

(* A call whose pc moves leaves the others in flight.                      *)
LEMMA InFlightMoves ==
  ASSUME PageType, NEW c \in Call, NEW p \in CallPc, pc' = [pc EXCEPT ![c] = p]
  PROVE  /\ pc' \in [Call -> CallPc] /\ pc'[c] = p
         /\ \A d \in Call \ {c} : pc'[d] = pc[d]
         /\ InFlight' = IF p \in {"token", "submit", "stream"} THEN InFlight \cup {c}
                        ELSE InFlight \ {c}
<1>1. /\ pc' \in [Call -> CallPc] /\ pc'[c] = p
      /\ \A d \in Call \ {c} : pc'[d] = pc[d]
  BY DEF PageType
<1> QED
  BY <1>1 DEF InFlight

-----------------------------------------------------------------------------
(* handleFile up to its first await.                                       *)
LEMMA HandleFilePage ==
  ASSUME PageInv, NEW c \in Call, NEW s \in BOOLEAN,
         NEW class \in {"fits", "too_large", "wrong_type"}, NEW v,
         HandleFile(c, s, class, v),
         v = view \/ (v = Idle /\ view.status # "parsing"),
         pc[c] \in {"unused", "fetching"}, (s <=> c \in sample),
         UNCHANGED <<sample, canned>>
  PROVE  PageInv'
<1>0. PageType /\ class \in {"fits"} \cup Codes /\ c \notin InFlight
  BY DEF PageInv, Codes, InFlight
<1>1. PICK p \in {"token", "done"} : pc' = [pc EXCEPT ![c] = p] /\ (p = "token" <=> ~busy /\ class = "fits")
  BY DEF HandleFile
<1>2. /\ pc' \in [Call -> CallPc] /\ pc'[c] = p
      /\ \A d \in Call \ {c} : pc'[d] = pc[d]
      /\ InFlight' = IF p = "token" THEN InFlight \cup {c} ELSE InFlight \ {c}
  BY <1>0, <1>1, InFlightMoves DEF CallPc
<1>3. SamplesKnown'
  BY <1>0, <1>1, <1>2 DEF PageInv, SamplesKnown, PageType
<1>4. csv' \in [waits : Csv \cup {None}, failed : BOOLEAN] /\ busy' \in BOOLEAN
  BY <1>0, CsvType DEF HandleFile, PageType
<1>5. CASE busy \/ class # "fits"
  <2>1. InFlight' = InFlight /\ busy' = busy
    BY <1>0, <1>1, <1>2, <1>5 DEF HandleFile
  <2>2. CASE busy
    <3>1. view' = v
      BY <2>2 DEF HandleFile, Show
    <3>2. CASE v = view
      <4>1. \A d \in Call : pc[d] = "done" => pc'[d] = "done"
        BY <1>0, <1>2 DEF PageInv
      <4> QED
        BY <1>0, <1>2, <1>3, <1>4, <2>1, <3>1, <3>2, <4>1
        DEF PageInv, PageType, SpinnerHasUpload, NamesOwnFile
    <3>3. CASE v = Idle
      BY <1>0, <1>2, <1>3, <1>4, <2>1, <3>1, <3>3, IdleView
      DEF PageInv, PageType, SpinnerHasUpload, NamesOwnFile
    <3> QED
      BY <3>2, <3>3
  <2>3. CASE ~busy
    <3>1. view' = Failed(class, c) /\ class \in Codes
      BY <1>0, <1>5, <2>3 DEF HandleFile, Show
    <3> QED
      BY <1>0, <1>2, <1>3, <1>4, <2>1, <3>1, FailedView
      DEF PageInv, PageType, SpinnerHasUpload, NamesOwnFile
  <2> QED
    BY <2>2, <2>3
<1>6. CASE ~busy /\ class = "fits"
  <2>1. view' = Parsing(c, s) /\ busy' = TRUE
    BY <1>6 DEF HandleFile, Show
  <2>2. InFlight' = {c}
    BY <1>1, <1>2, <1>6 DEF PageInv, SpinnerHasUpload
  <2>3. /\ view' \in View /\ view'.status = "parsing" /\ view'.code = "none"
        /\ view'.progress = None /\ view'.file = c /\ view'.sample = s
    BY <2>1, ParsingView
  <2>4. PageType'
    BY <1>0, <1>2, <1>4, <2>3 DEF PageType
  <2>5. SpinnerHasUpload'
    BY <2>1, <2>2, <2>3 DEF SpinnerHasUpload
  <2>6. NamesOwnFile'
    BY <2>3 DEF NamesOwnFile
  <2> QED
    BY <1>3, <2>4, <2>5, <2>6 DEF PageInv
<1> QED
  BY <1>5, <1>6

(* The end of an upload: the page shows its error, or its result if it is  *)
(* still waiting for it.                                                   *)
LEMMA EndPage ==
  ASSUME PageInv, NEW c \in InFlight, NEW v, Show(v),
         v = Succeeded(c) \/ \E code \in Codes : v = Failed(code, c),
         busy' = FALSE, pc' = [pc EXCEPT ![c] = "done"],
         UNCHANGED <<sample, canned>>
  PROVE  PageInv'
<1>0. c \in Call /\ PageType
  BY DEF InFlight, PageInv
<1>1. /\ pc' \in [Call -> CallPc] /\ pc'[c] = "done"
      /\ \A d \in Call \ {c} : pc'[d] = pc[d]
      /\ InFlight' = InFlight \ {c}
  BY <1>0, InFlightMoves DEF CallPc
<1>2. InFlight' = {} /\ (view.status = "parsing" => view.file = c)
  BY <1>1 DEF PageInv, SpinnerHasUpload
<1>3. SamplesKnown'
  BY <1>0, <1>1 DEF PageInv, SamplesKnown
<1>4. view' = v /\ csv' \in [waits : Csv \cup {None}, failed : BOOLEAN]
  BY <1>0, CsvType DEF PageType
<1>5. CASE \E code \in Codes : v = Failed(code, c)
  <2>1. PICK code \in Codes : view' = Failed(code, c)
    BY <1>4, <1>5
  <2>2. /\ view' \in View /\ view'.status = "error" /\ view'.code # "none"
        /\ view'.progress = None
    BY <1>0, <2>1, FailedView
  <2>3. PageType'
    BY <1>0, <1>1, <1>4, <2>2 DEF PageType
  <2>4. SpinnerHasUpload' /\ NamesOwnFile'
    BY <1>2, <2>2 DEF SpinnerHasUpload, NamesOwnFile
  <2> QED
    BY <1>3, <2>3, <2>4 DEF PageInv
<1>6. CASE v = Succeeded(c) /\ view.status = "parsing"
  <2>1. /\ view' \in View /\ view'.status = "result" /\ view'.code = "none"
        /\ view'.progress = None /\ view'.data = c /\ view'.file = c
        /\ view'.sample = view.sample /\ (view'.overLimit <=> c \in canned)
    BY <1>0, <1>2, <1>4, <1>6, SucceededView DEF PageType
  <2>2. view.sample <=> c \in sample
    BY <1>2, <1>6 DEF PageInv, NamesOwnFile
  <2>3. PageType'
    BY <1>0, <1>1, <1>4, <2>1 DEF PageType
  <2>4. SpinnerHasUpload' /\ NamesOwnFile'
    BY <1>0, <1>1, <1>2, <2>1, <2>2 DEF SpinnerHasUpload, NamesOwnFile
  <2> QED
    BY <1>3, <2>3, <2>4 DEF PageInv
<1>7. CASE v = Succeeded(c) /\ view.status # "parsing"
  <2>1. view' = view
    BY <1>0, <1>4, <1>7, SucceededView DEF PageType
  <2>2. PageType'
    BY <1>0, <1>1, <1>4, <2>1 DEF PageType
  <2>3. SpinnerHasUpload'
    BY <1>2, <1>7, <2>1 DEF SpinnerHasUpload
  <2>4. NamesOwnFile'
    <3>1. view.status = "result" => view.file \in Call /\ pc'[view.file] = "done"
      BY <1>0, <1>1 DEF PageInv, NamesOwnFile
    <3> QED
      BY <1>7, <2>1, <3>1 DEF PageInv, NamesOwnFile
  <2> QED
    BY <1>3, <2>2, <2>3, <2>4 DEF PageInv
<1> QED
  BY <1>5, <1>6, <1>7

(* An upload goes on: the page does not change, and only an upload in      *)
(* flight is answered with the canned statement.                           *)
LEMMA OnwardPage ==
  ASSUME PageInv, NEW c \in InFlight, NEW p \in {"token", "submit", "stream"},
         pc' = [pc EXCEPT ![c] = p], canned' \in {canned, canned \cup {c}},
         UNCHANGED <<view, busy, sample, csv>>
  PROVE  PageInv'
<1>0. c \in Call /\ PageType /\ pc[c] # "done"
  BY DEF InFlight, PageInv
<1>1. /\ pc' \in [Call -> CallPc] /\ pc'[c] = p
      /\ \A d \in Call \ {c} : pc'[d] = pc[d]
      /\ InFlight' = InFlight
  <2>1. p \in CallPc /\ InFlight \cup {c} = InFlight
    BY DEF CallPc
  <2> QED
    BY <1>0, <2>1, InFlightMoves
<1>2. PageType'
  <2>1. canned' \subseteq Call
    <3>1. canned \subseteq Call /\ canned \cup {c} \subseteq Call
      BY <1>0 DEF PageType
    <3> QED
      BY <3>1
  <2>2. UNCHANGED <<view, busy, sample, csv>>
    OBVIOUS
  <2> QED
    BY <1>0, <1>1, <2>1, <2>2 DEF PageType
<1>3. SpinnerHasUpload'
  BY <1>1 DEF PageInv, SpinnerHasUpload
<1>4. SamplesKnown'
  <2>1. pc'[c] # "unused" /\ pc'[c] # "fetching" /\ sample' = sample /\ sample \subseteq Call
    BY <1>0, <1>1 DEF PageType
  <2> QED
    BY <1>1, <2>1 DEF PageInv, SamplesKnown
<1>5. NamesOwnFile'
  BY <1>0, <1>1 DEF PageInv, NamesOwnFile
<1> QED
  BY <1>2, <1>3, <1>4, <1>5 DEF PageInv

-----------------------------------------------------------------------------
(* The tokens.  A step that neither sends, gets nor makes one keeps what   *)
(* is known of them, as long as no call comes to an end.                   *)
LEMMA MovesKeepTokens ==
  ASSUME PageInv, TokenInv, NEW c \in Call, NEW p \in CallPc,
         pc' = [pc EXCEPT ![c] = p], UNCHANGED <<token, widget, issued, sent>>,
         \/ pc[c] \in {"unused", "fetching"} /\ p \in {"fetching", "token", "done"}
         \/ pc[c] \in {"token", "submit", "stream"} /\ p = pc[c]
  PROVE  TokenInv'
<1>0. PageType /\ TokenType /\ TokensUsed
  BY DEF PageInv, TokenInv
<1>1. /\ pc' \in [Call -> CallPc] /\ pc'[c] = p
      /\ \A d \in Call \ {c} : pc'[d] = pc[d]
      /\ InFlight' = IF p \in {"token", "submit", "stream"} THEN InFlight \cup {c}
                     ELSE InFlight \ {c}
  BY <1>0, InFlightMoves
<1>2. /\ token' = token /\ widget' = widget /\ issued' = issued /\ sent' = sent
      /\ None \notin Token
  BY DEF Token
<1>3. pc[c] \in {"unused", "fetching"} => token[c] = None /\ \A t \in Token : c \notin sent[t]
  BY <1>0 DEF TokensUsed
<1>4. \A d \in InFlight' : d \in InFlight \/ token[d] = None
  BY <1>1, <1>3 DEF InFlight
<1>5. \A t \in Token : \A d \in sent[t] \cap Call : pc'[d] = pc[d]
  BY <1>1, <1>3
<1>6. \A t \in Token : \A d \in sent[t] \cap Call :
        pc'[d] = "done" => widget # t /\ \A e \in InFlight' : token[e] # t
  BY <1>0, <1>2, <1>4, <1>5 DEF TokensUsed
<1>7. \A d \in Call : pc'[d] \in {"unused", "fetching", "token"} => token[d] = None
  BY <1>0, <1>1, <1>3 DEF TokensUsed
<1>8. TokensUsed'
  BY <1>0, <1>2, <1>5, <1>6, <1>7 DEF TokensUsed
<1> QED
  BY <1>0, <1>2, <1>8 DEF TokenInv, TokenType, ParsesHaveOwnToken

(* An upload that ends takes the widget's token with it.                   *)
LEMMA EndTokens ==
  ASSUME PageInv, TokenInv, NEW c \in Call, pc[c] = "stream",
         pc' = [pc EXCEPT ![c] = "done"], widget' = None,
         UNCHANGED <<token, issued, sent>>
  PROVE  TokenInv'
<1>0. PageType /\ TokenType /\ TokensUsed /\ c \in InFlight
  BY DEF PageInv, TokenInv, InFlight
<1>1. /\ pc' \in [Call -> CallPc] /\ pc'[c] = "done"
      /\ \A d \in Call \ {c} : pc'[d] = pc[d]
      /\ InFlight' = InFlight \ {c}
  BY <1>0, InFlightMoves DEF CallPc
<1>2. InFlight' = {} /\ None \notin Token
  BY <1>0, <1>1 DEF PageInv, SpinnerHasUpload, Token
<1>3. TokensUsed'
  BY <1>0, <1>1, <1>2 DEF TokensUsed
<1> QED
  BY <1>0, <1>3 DEF TokenInv, TokenType, ParsesHaveOwnToken

(* A call gets what the widget holds: not the token of a finished one.     *)
LEMMA GetTokens ==
  ASSUME PageInv, TokenInv, NEW c \in Call, AwaitToken(c)
  PROVE  TokenInv'
<1>0. PageType /\ TokenType /\ TokensUsed /\ c \in InFlight /\ pc[c] = "token"
  BY DEF PageInv, TokenInv, InFlight, AwaitToken
<1>1. /\ pc' \in [Call -> CallPc] /\ pc'[c] = "submit"
      /\ \A d \in Call \ {c} : pc'[d] = pc[d]
      /\ InFlight' = InFlight \cup {c}
  BY <1>0, InFlightMoves DEF CallPc, AwaitToken
<1>2. /\ token' \in [Call \cup Csv -> Token \cup {None}] /\ token'[c] = widget
      /\ \A u \in (Call \cup Csv) \ {c} : token'[u] = token[u]
      /\ UNCHANGED <<widget, issued, sent>>
  BY <1>0 DEF AwaitToken, GetToken, TokenType
<1>3. \A t \in Token : c \notin sent[t]
  BY <1>0 DEF TokensUsed
<1>4. \A t \in Token : \A d \in sent[t] \cap Call : pc'[d] = pc[d] /\ d # c
  BY <1>1, <1>3
<1>5. \A t \in Token : \A d \in sent[t] \cap Call :
        pc'[d] = "done" => widget # t /\ \A e \in InFlight' : token'[e] # t
  <2> SUFFICES ASSUME NEW t \in Token, NEW d \in sent[t] \cap Call, pc'[d] = "done",
                      NEW e \in InFlight'
               PROVE  widget # t /\ token'[e] # t
    BY <1>0, <1>1
  <2>1. pc[d] = "done"
    BY <1>4
  <2>2. widget # t /\ \A f \in InFlight : token[f] # t
    BY <1>0, <2>1 DEF TokensUsed
  <2>3. CASE e = c
    BY <1>2, <2>2, <2>3
  <2>4. CASE e # c
    BY <1>1, <1>2, <2>2, <2>4 DEF InFlight
  <2> QED
    BY <2>3, <2>4
<1>6. TokensUsed'
  <2>1. \A d \in Call : pc'[d] \in {"unused", "fetching", "token"} => token'[d] = None
    BY <1>0, <1>1, <1>2 DEF TokensUsed
  <2>2. \A u \in Call \cup Csv : token'[u] # None => token'[u] <= issued
    BY <1>0, <1>2 DEF TokensUsed
  <2>3. \A t \in Token : \A d \in sent[t] \cap Call : pc'[d] \in {"stream", "done"}
    BY <1>0, <1>4 DEF TokensUsed
  <2> QED
    BY <1>0, <1>2, <1>5, <2>1, <2>2, <2>3 DEF TokensUsed
<1> QED
  BY <1>0, <1>2, <1>6 DEF TokenInv, TokenType, ParsesHaveOwnToken

(* An upload is sent with its token: no other has been, since the widget   *)
(* was reset when that one ended.                                          *)
LEMMA SendTokens ==
  ASSUME PageInv, TokenInv, NEW c \in Call, pc[c] = "submit", Send(c),
         NEW p \in {"stream", "done"}, pc' = [pc EXCEPT ![c] = p],
         widget' = IF p = "done" THEN None ELSE widget, issued' = issued
  PROVE  TokenInv'
<1>0. PageType /\ TokenType /\ TokensUsed /\ c \in InFlight /\ None \notin Token
  BY DEF PageInv, TokenInv, InFlight, Token
<1>1. /\ pc' \in [Call -> CallPc] /\ pc'[c] = p
      /\ \A d \in Call \ {c} : pc'[d] = pc[d]
      /\ InFlight' = IF p = "stream" THEN InFlight \cup {c} ELSE InFlight \ {c}
  BY <1>0, InFlightMoves DEF CallPc
<1>2. InFlight = {c} /\ InFlight' = (IF p = "stream" THEN {c} ELSE {})
  BY <1>0, <1>1 DEF PageInv, SpinnerHasUpload
<1>3. /\ token' \in [Call \cup Csv -> Token \cup {None}] /\ token'[c] = None
      /\ \A u \in (Call \cup Csv) \ {c} : token'[u] = token[u]
  BY <1>0 DEF Send, TokenType
<1>4. /\ sent' \in [Token -> SUBSET (Call \cup Csv)]
      /\ \A t \in Token : sent'[t] = IF t = token[c] THEN sent[t] \cup {c} ELSE sent[t]
  <2>1. CASE token[c] = None
    BY <1>0, <2>1 DEF Send, TokenType
  <2>2. CASE token[c] # None
    BY <1>0, <2>2 DEF Send, TokenType
  <2> QED
    BY <2>1, <2>2
<1>5. \A t \in Token : c \notin sent[t]
  BY <1>0 DEF TokensUsed
<1>6. \A t \in Token : t = token[c] => sent[t] \cap Call = {}
  <2> SUFFICES ASSUME NEW t \in Token, t = token[c], NEW d \in sent[t] \cap Call PROVE FALSE
    OBVIOUS
  <2>1. d # c /\ pc[d] \in {"stream", "done"}
    BY <1>0, <1>5 DEF TokensUsed
  <2>2. pc[d] = "done"
    BY <1>2, <2>1 DEF InFlight
  <2> QED
    BY <1>0, <2>2 DEF TokensUsed
<1>7. ParsesHaveOwnToken'
  BY <1>4, <1>6 DEF TokenInv, ParsesHaveOwnToken
<1>8. TokensUsed'
  <2>1. \A t \in Token : sent'[t] # {} => t <= issued'
    BY <1>0, <1>4 DEF TokensUsed
  <2>2. widget' # None => widget' <= issued'
    BY <1>0 DEF TokensUsed
  <2>3. \A u \in Call \cup Csv : token'[u] # None => token'[u] <= issued'
    BY <1>0, <1>3 DEF TokensUsed
  <2>4. \A t \in Token : \A d \in sent'[t] \cap Call : pc'[d] \in {"stream", "done"}
    BY <1>0, <1>1, <1>4 DEF TokensUsed
  <2>5. \A d \in Call : pc'[d] \in {"unused", "fetching", "token"} => token'[d] = None
    BY <1>0, <1>1, <1>3 DEF TokensUsed
  <2>6. \A t \in Token : \A d \in sent'[t] \cap Call :
          pc'[d] = "done" => widget' # t /\ \A e \in InFlight' : token'[e] # t
    <3> SUFFICES ASSUME NEW t \in Token, NEW d \in sent'[t] \cap Call, pc'[d] = "done"
                 PROVE  widget' # t /\ \A e \in InFlight' : token'[e] # t
      OBVIOUS
    <3>1. \A e \in InFlight' : token'[e] # t
      BY <1>0, <1>2, <1>3
    <3>2. widget' # t
      <4>1. CASE p = "done"
        BY <1>0, <4>1
      <4>2. CASE p = "stream"
        <5>1. d # c /\ d \in sent[t] \cap Call /\ pc[d] = "done"
          BY <1>1, <1>4, <4>2
        <5> QED
          BY <1>0, <4>2, <5>1 DEF TokensUsed
      <4> QED
        BY <4>1, <4>2
    <3> QED
      BY <3>1, <3>2
  <2> QED
    BY <2>1, <2>2, <2>3, <2>4, <2>5, <2>6 DEF TokensUsed
<1>9. TokenType'
  BY <1>0, <1>3, <1>4 DEF TokenType
<1> QED
  BY <1>7, <1>8, <1>9 DEF TokenInv

-----------------------------------------------------------------------------
(* The worker's own variables, whatever it does.                           *)
LEMMA WorkerStays ==
  ASSUME WorkerType, UNCHANGED <<now, phase, since>>
  PROVE  WorkerType'
  BY DEF WorkerType

LEMMA WorkerServes ==
  ASSUME WorkerType, NEW c \in Call,
         Worker!Accept(c) \/ Worker!Settle(c, "none", "ready") \/ Worker!Resolve(c)
  PROVE  WorkerType'
<1>1. now' = now /\ since' \in [Call -> Nat \cup {-1}]
  BY DEF Worker!Accept, Worker!Settle, Worker!Resolve, WorkerType
<1>2. \E x \in {"pending", "ready", "failed"} : phase' = [phase EXCEPT ![c] = x]
  BY DEF Worker!Accept, Worker!Settle, Worker!Resolve
<1> QED
  BY <1>1, <1>2 DEF WorkerType

LEMMA WorkerAges ==
  ASSUME WorkerType, Worker!Forget \/ Worker!Pass
  PROVE  WorkerType'
<1>1. CASE Worker!Forget
  BY <1>1 DEF Worker!Forget, WorkerType
<1>2. CASE Worker!Pass
  BY <1>2 DEF Worker!Pass, WorkerType
<1> QED
  BY <1>1, <1>2

(* The steps of one call.                                                  *)
LEMMA CallStep ==
  ASSUME DemoInv, NEW c \in Call, Handle(c)
  PROVE  DemoInv'
<1> USE DEF tokenVars, workerVars
<1> DEFINE Goal == PageInv' /\ TokenInv' /\ CsvPcType' /\ WorkerType'
<1> SUFFICES Goal
  BY DEF DemoInv, PageInv, TokenInv, CsvPcType, WorkerType, TypeOK, PageType,
         TokenType, CallPc
<1>0. PageInv /\ TokenInv /\ CsvPcType /\ WorkerType /\ PageType
  BY DemoParts DEF PageInv
<1>c. CsvPcType'
  BY <1>0 DEF Handle, Drop, Pick, ClickSample, SampleAnswers, AwaitToken, SubmitRefused,
              SubmitAccepted, SubmitLost, StreamProgress, StreamResult, StreamError,
              CsvPcType
<1>1. ASSUME NEW s \in BOOLEAN, NEW class \in {"fits", "too_large", "wrong_type"}, NEW v,
             HandleFile(c, s, class, v), v = view \/ (v = Idle /\ view.status # "parsing"),
             pc[c] \in {"unused", "fetching"}, (s <=> c \in sample),
             UNCHANGED <<sample, canned, token, widget, issued, sent, now, phase, since>>
      PROVE  Goal
  <2>1. PageInv'
    BY <1>0, <1>1, HandleFilePage
  <2>2. PICK p \in {"token", "done"} : pc' = [pc EXCEPT ![c] = p]
    BY <1>1 DEF HandleFile
  <2>3. TokenInv'
    BY <1>0, <1>1, <2>2, MovesKeepTokens DEF CallPc
  <2> QED
    BY <1>0, <1>1, <1>c, <2>1, <2>3, WorkerStays
<1>2. CASE Drop(c) \/ Pick(c)
  <2>1. PICK class \in {"fits", "too_large", "wrong_type"}, v \in {Idle, view} :
          HandleFile(c, FALSE, class, v) /\ (v = view \/ (v = Idle /\ view.status # "parsing"))
    BY <1>2 DEF Drop, Pick, TakesDrop
  <2>2. /\ pc[c] = "unused" /\ c \notin sample
        /\ UNCHANGED <<sample, canned, token, widget, issued, sent, now, phase, since>>
    BY <1>0, <1>2 DEF Drop, Pick, PageInv, SamplesKnown
  <2> QED
    BY <1>1, <2>1, <2>2
<1>3. CASE ClickSample(c)
  <2>1. /\ pc[c] = "unused" /\ sample' = sample \cup {c} /\ pc' = [pc EXCEPT ![c] = "fetching"]
        /\ UNCHANGED <<view, busy, csv, token, widget, issued, sent, canned, now, phase, since>>
    BY <1>3 DEF ClickSample
  <2>2. /\ pc' \in [Call -> CallPc] /\ pc'[c] = "fetching"
        /\ \A d \in Call \ {c} : pc'[d] = pc[d]
        /\ InFlight' = InFlight
    BY <1>0, <2>1, InFlightMoves DEF CallPc, InFlight
  <2>3. TokenInv'
    BY <1>0, <2>1, MovesKeepTokens DEF CallPc
  <2>4. PageType' /\ SpinnerHasUpload'
    BY <1>0, <2>1, <2>2 DEF PageInv, PageType, SpinnerHasUpload
  <2>5. SamplesKnown'
    BY <1>0, <2>1, <2>2 DEF PageInv, PageType, SamplesKnown
  <2>6. NamesOwnFile'
    <3>1. view.status \in {"parsing", "result"} => view.file # c
      BY <1>0, <2>1 DEF PageInv, SpinnerHasUpload, NamesOwnFile, InFlight
    <3> QED
      BY <1>0, <2>1, <2>2, <3>1 DEF PageInv, NamesOwnFile
  <2> QED
    BY <1>0, <1>c, <2>1, <2>3, <2>4, <2>5, <2>6, WorkerStays DEF PageInv
<1>4. CASE SampleAnswers(c)
  <2>1. /\ pc[c] = "fetching" /\ c \in sample
        /\ UNCHANGED <<sample, canned, token, widget, issued, sent, now, phase, since>>
    BY <1>0, <1>4 DEF SampleAnswers, PageInv, SamplesKnown
  <2>2. CASE HandleFile(c, TRUE, "fits", view)
    BY <1>1, <2>1, <2>2
  <2>3. CASE /\ Show(Failed("network", None))
             /\ pc' = [pc EXCEPT ![c] = "done"] /\ UNCHANGED busy
    <3>1. /\ pc' \in [Call -> CallPc] /\ pc'[c] = "done"
          /\ \A d \in Call \ {c} : pc'[d] = pc[d]
          /\ InFlight' = InFlight
      BY <1>0, <2>1, <2>3, InFlightMoves DEF CallPc, InFlight
    <3>2. TokenInv'
      BY <1>0, <2>1, <2>3, MovesKeepTokens DEF CallPc
    <3>3. /\ view' \in View /\ view'.status = "error" /\ view'.code # "none"
          /\ view'.progress = None
          /\ csv' \in [waits : Csv \cup {None}, failed : BOOLEAN]
      BY <1>0, <2>3, FailedView, CsvType DEF PageType, Codes
    <3>4. PageType' /\ SpinnerHasUpload'
      BY <1>0, <2>1, <2>3, <3>1, <3>3 DEF PageInv, PageType, SpinnerHasUpload
    <3>5. SamplesKnown' /\ NamesOwnFile'
      BY <1>0, <2>1, <3>1, <3>3 DEF PageInv, PageType, SamplesKnown, NamesOwnFile
    <3> QED
      BY <1>0, <1>c, <2>1, <3>2, <3>4, <3>5, WorkerStays DEF PageInv
  <2> QED
    BY <1>4, <2>2, <2>3 DEF SampleAnswers
<1>5. CASE AwaitToken(c)
  <2>1. c \in InFlight /\ pc' = [pc EXCEPT ![c] = "submit"]
        /\ UNCHANGED <<view, busy, sample, csv, canned, now, phase, since>>
    BY <1>5 DEF AwaitToken, InFlight
  <2> QED
    BY <1>0, <1>5, <1>c, <2>1, OnwardPage, GetTokens, WorkerStays
<1>6. ASSUME UNCHANGED <<sample, issued>>, UNCHANGED canned,
             \/ Succeed(c)
             \/ \E code \in Codes : Fail(c, code),
             \/ pc[c] = "submit" /\ Send(c)
             \/ UNCHANGED <<token, sent>> /\ pc[c] = "stream",
             WorkerType'
      PROVE  Goal
  <2>1. /\ c \in InFlight /\ widget' = None /\ busy' = FALSE
        /\ pc' = [pc EXCEPT ![c] = "done"]
        /\ \E v : Show(v) /\ (v = Succeeded(c) \/ \E code \in Codes : v = Failed(code, c))
    BY <1>6 DEF Succeed, Fail, InFlight
  <2>2. PageInv'
    BY <1>0, <1>6, <2>1, EndPage
  <2>3. TokenInv'
    BY <1>0, <1>6, <2>1, EndTokens, SendTokens
  <2> QED
    BY <1>6, <1>c, <2>2, <2>3
<1>7. CASE SubmitRefused(c) \/ SubmitLost(c) \/ StreamError(c)
  <2>1. "network" \in Codes
    BY DEF Codes
  <2>2. \E code \in Codes : Fail(c, code)
    BY <1>7, <2>1, CodeTypes DEF SubmitRefused, SubmitLost, StreamError
  <2>3. WorkerType'
    BY <1>0, <1>7, WorkerStays, WorkerServes DEF SubmitRefused, SubmitLost, StreamError
  <2> QED
    BY <1>6, <1>7, <2>2, <2>3 DEF SubmitRefused, SubmitLost, StreamError
<1>8. CASE SubmitAccepted(c)
  <2>1. /\ c \in InFlight /\ pc[c] = "submit" /\ Send(c)
        /\ pc' = [pc EXCEPT ![c] = "stream"] /\ canned' \in {canned, canned \cup {c}}
        /\ UNCHANGED <<view, busy, sample, csv, widget, issued>>
    BY <1>8 DEF SubmitAccepted, InFlight
  <2>2. WorkerType'
    BY <1>0, <1>8, WorkerServes DEF SubmitAccepted
  <2> QED
    BY <1>0, <1>c, <2>1, <2>2, OnwardPage, SendTokens
<1>9. CASE StreamProgress(c)
  <2>1. /\ c \in InFlight /\ pc[c] = "stream" /\ Show(Progressed(c))
        /\ UNCHANGED <<busy, pc, sample, token, widget, issued, sent, canned, now, phase, since>>
    BY <1>9 DEF StreamProgress, InFlight
  <2>2. view' = Progressed(c) /\ csv' \in [waits : Csv \cup {None}, failed : BOOLEAN]
    BY <1>0, <2>1, CsvType DEF PageType
  <2>3. pc' = [pc EXCEPT ![c] = pc[c]] /\ pc[c] \in CallPc /\ InFlight' = InFlight
    BY <1>0, <2>1 DEF PageType, InFlight
  <2>4. TokenInv'
    BY <1>0, <2>1, <2>3, MovesKeepTokens
  <2>5. CASE view.status # "parsing"
    <3>1. view' = view
      BY <1>0, <2>2, <2>5, ProgressedView DEF PageType
    <3> QED
      BY <1>0, <1>c, <2>1, <2>2, <2>3, <2>4, <3>1, WorkerStays
      DEF PageInv, PageType, SpinnerHasUpload, SamplesKnown, NamesOwnFile
  <2>6. CASE view.status = "parsing"
    <3>1. /\ view' \in View /\ view'.status = "parsing" /\ view'.code = "none"
          /\ view'.progress = c /\ view'.file = view.file /\ view'.sample = view.sample
      BY <1>0, <2>2, <2>6, ProgressedView DEF PageType
    <3>2. view.file = c
      BY <1>0, <2>1, <2>6 DEF PageInv, SpinnerHasUpload
    <3>3. PageType' /\ SpinnerHasUpload'
      BY <1>0, <2>1, <2>2, <2>3, <2>6, <3>1 DEF PageInv, PageType, SpinnerHasUpload
    <3>4. SamplesKnown' /\ NamesOwnFile'
      BY <1>0, <2>1, <2>6, <3>1, <3>2 DEF PageInv, SamplesKnown, NamesOwnFile
    <3> QED
      BY <1>0, <1>c, <2>1, <2>4, <3>3, <3>4, WorkerStays DEF PageInv
  <2> QED
    BY <2>5, <2>6
<1>10. CASE StreamResult(c)
  <2>1. Succeed(c) \/ \E code \in Codes : Fail(c, code)
    BY <1>10, CodeTypes DEF StreamResult
  <2>2. WorkerType'
    BY <1>0, <1>10, WorkerStays DEF StreamResult
  <2> QED
    BY <1>6, <1>10, <2>1, <2>2 DEF StreamResult
<1> QED
  BY <1>2, <1>3, <1>4, <1>5, <1>7, <1>8, <1>9, <1>10 DEF Handle

-----------------------------------------------------------------------------
(* The steps of the CSV downloads: they leave the uploads' tokens alone    *)
(* but for the widget, which they only ever empty.                         *)
LEMMA CsvStep ==
  ASSUME DemoInv, NEW d \in Csv, HandleCsv(d)
  PROVE  DemoInv'
<1> USE DEF tokenVars, workerVars
<1>0. PageInv /\ TokenInv /\ CsvPcType /\ WorkerType /\ PageType /\ TokenType /\ TokensUsed
  BY DemoParts DEF PageInv, TokenInv
<1>1. CsvPcType'
  BY <1>0 DEF HandleCsv, ClickCsv, CsvToken, CsvPost, CsvAnswer, CsvPcType
<1>2. UNCHANGED <<view, busy, pc, sample, canned, now, phase, since>>
  BY DEF HandleCsv, ClickCsv, CsvToken, CsvPost, CsvAnswer
<1>3. WorkerType' /\ InFlight' = InFlight
  BY <1>0, <1>2, WorkerStays DEF InFlight
<1>4. csv' \in [waits : Csv \cup {None}, failed : BOOLEAN]
  <2>1. CASE CsvAnswer(d)
    <3>1. PICK ok \in {TRUE, FALSE} :
            csv' = IF csv.waits = d THEN [waits |-> None, failed |-> ~ok] ELSE csv
      BY <2>1 DEF CsvAnswer
    <3>2. [waits |-> None, failed |-> ~ok] \in [waits : Csv \cup {None}, failed : BOOLEAN]
      OBVIOUS
    <3> QED
      BY <1>0, <3>1, <3>2 DEF PageType
  <2>2. CASE ClickCsv(d)
    BY <2>2 DEF ClickCsv
  <2>3. CASE CsvToken(d) \/ CsvPost(d)
    BY <1>0, <2>3 DEF CsvToken, CsvPost, PageType
  <2> QED
    BY <2>1, <2>2, <2>3 DEF HandleCsv
<1>5. PageInv'
  BY <1>0, <1>2, <1>3, <1>4
  DEF PageInv, PageType, SpinnerHasUpload, SamplesKnown, NamesOwnFile
<1>6. \A c \in Call : token'[c] = token[c]
  <2>1. CASE token' = token
    BY <2>1
  <2>2. CASE \E x : token' = [token EXCEPT ![d] = x]
    BY <1>0, <2>2 DEF TokenType
  <2> QED
    BY <2>1, <2>2 DEF HandleCsv, ClickCsv, CsvToken, CsvPost, CsvAnswer, GetToken, Send
<1>7. /\ token' \in [Call \cup Csv -> Token \cup {None}]
      /\ token'[d] \in {None, token[d], widget}
      /\ \A u \in Csv \ {d} : token'[u] = token[u]
  <2>1. CASE token' = token
    BY <1>0, <2>1 DEF TokenType
  <2>2. CASE \E x \in {None, widget} : token' = [token EXCEPT ![d] = x]
    BY <1>0, <2>2 DEF TokenType
  <2> QED
    BY <2>1, <2>2 DEF HandleCsv, ClickCsv, CsvToken, CsvPost, CsvAnswer, GetToken, Send
<1>8. issued' = issued /\ widget' \in {None, widget}
  BY DEF HandleCsv, ClickCsv, CsvToken, CsvPost, CsvAnswer, GetToken
<1>9. /\ sent' \in [Token -> SUBSET (Call \cup Csv)]
      /\ \A t \in Token : /\ sent'[t] \cap Call = sent[t] \cap Call
                          /\ sent'[t] # sent[t] => t = token[d]
  <2>1. CASE sent' = sent
    BY <1>0, <2>1 DEF TokenType
  <2>2. CASE token[d] # None /\ sent' = [sent EXCEPT ![token[d]] = @ \cup {d}]
    <3>1. token[d] \in Token
      BY <1>0, <2>2 DEF TokenType
    <3> QED
      BY <1>0, <2>2, <3>1 DEF TokenType
  <2> QED
    BY <2>1, <2>2 DEF HandleCsv, ClickCsv, CsvToken, CsvPost, CsvAnswer, GetToken, Send
<1>10. TokenType'
  BY <1>0, <1>7, <1>8, <1>9 DEF TokenType
<1>11. ParsesHaveOwnToken'
  BY <1>0, <1>9 DEF TokenInv, ParsesHaveOwnToken
<1>12. TokensUsed'
  <2>1. \A t \in Token : sent'[t] # {} => t <= issued
    <3> SUFFICES ASSUME NEW t \in Token, sent'[t] # {} PROVE t <= issued
      OBVIOUS
    <3>1. CASE sent'[t] = sent[t]
      BY <1>0, <3>1 DEF TokensUsed
    <3>2. CASE t = token[d]
      BY <1>0, <3>2 DEF TokensUsed, Token
    <3> QED
      BY <1>9, <3>1, <3>2
  <2>2. widget' # None => widget' <= issued
    BY <1>0, <1>8 DEF TokensUsed
  <2>3. \A u \in Call \cup Csv : token'[u] # None => token'[u] <= issued
    BY <1>0, <1>6, <1>7 DEF TokensUsed
  <2>4. \A t \in Token : \A c \in sent'[t] \cap Call : pc[c] \in {"stream", "done"}
    BY <1>0, <1>9 DEF TokensUsed
  <2>5. \A c \in Call : pc[c] \in {"unused", "fetching", "token"} => token'[c] = None
    BY <1>0, <1>6 DEF TokensUsed
  <2>6. \A t \in Token : \A c \in sent'[t] \cap Call :
          pc[c] = "done" => widget' # t /\ \A e \in InFlight : token'[e] # t
    <3> SUFFICES ASSUME NEW t \in Token, NEW c \in sent'[t] \cap Call, pc[c] = "done"
                 PROVE  widget' # t /\ \A e \in InFlight : token'[e] # t
      OBVIOUS
    <3>1. c \in sent[t] \cap Call
      BY <1>9
    <3>2. widget # t /\ \A e \in InFlight : token[e] # t
      BY <1>0, <3>1 DEF TokensUsed
    <3> QED
      BY <1>6, <1>8, <3>2 DEF InFlight, Token
  <2> QED
    BY <1>2, <1>3, <1>8, <2>1, <2>2, <2>3, <2>4, <2>5, <2>6 DEF TokensUsed
<1> QED
  BY <1>1, <1>3, <1>5, <1>10, <1>11, <1>12
  DEF DemoInv, PageInv, TokenInv, CsvPcType, WorkerType, TypeOK, PageType, TokenType, CallPc

(* The steps of the page, the widget and the worker that are no call's.    *)
LEMMA OtherStep ==
  ASSUME DemoInv, DragEnter \/ DragLeave \/ Reset \/ Solve \/ WorkerStep
  PROVE  DemoInv'
<1> USE DEF tokenVars, workerVars, pageVars
<1> DEFINE Goal == PageInv' /\ TokenInv' /\ CsvPcType' /\ WorkerType'
<1> SUFFICES Goal
  BY DEF DemoInv, PageInv, TokenInv, CsvPcType, WorkerType, TypeOK, PageType,
         TokenType, CallPc
<1>0. PageInv /\ TokenInv /\ CsvPcType /\ WorkerType /\ PageType /\ TokenType /\ TokensUsed
  BY DemoParts DEF PageInv, TokenInv
<1>1. UNCHANGED <<busy, pc, sample, csvPc, canned, token, sent>>
  BY DEF DragEnter, DragLeave, Reset, Solve, WorkerStep
<1>2. CsvPcType' /\ InFlight' = InFlight /\ SamplesKnown'
  BY <1>0, <1>1 DEF CsvPcType, InFlight, PageInv, SamplesKnown
<1>3. CASE DragEnter \/ DragLeave \/ Reset
  <2>1. /\ view.status # "parsing" /\ UNCHANGED <<widget, issued, now, phase, since>>
        /\ csv' \in [waits : Csv \cup {None}, failed : BOOLEAN]
    BY <1>0, <1>3, CsvType
    DEF DragEnter, DragLeave, Reset, OffersParseAnother, OffersTryAnother, PageType
  <2>2. /\ view' \in View /\ view'.status \in {"idle", "dragover"} /\ view'.code = "none"
        /\ view'.progress = None
    <3>1. view' = Idle \/ view' = [Idle EXCEPT !.status = "dragover"]
      BY <1>3 DEF DragEnter, DragLeave, Reset, Show
    <3>2. CASE view' = Idle
      BY <3>2, IdleView
    <3>3. CASE view' = [Idle EXCEPT !.status = "dragover"]
      BY <3>3 DEF Idle, View
    <3> QED
      BY <3>1, <3>2, <3>3
  <2>3. PageType' /\ SpinnerHasUpload' /\ NamesOwnFile'
    BY <1>0, <1>1, <1>2, <2>1, <2>2
    DEF PageInv, PageType, SpinnerHasUpload, NamesOwnFile
  <2>4. TokenInv'
    BY <1>0, <1>1, <1>2, <2>1 DEF TokenInv, TokenType, TokensUsed, ParsesHaveOwnToken
  <2> QED
    BY <1>0, <1>2, <2>1, <2>3, <2>4, WorkerStays DEF PageInv
<1>4. CASE Solve
  <2>1. /\ widget' = issued + 1 /\ issued' = issued + 1 /\ issued + 1 \in Token
        /\ UNCHANGED <<view, csv, now, phase, since>>
    BY <1>0, <1>4 DEF Solve, TokenType, Token
  <2>2. PageInv'
    BY <1>0, <1>1, <1>2, <2>1
    DEF PageInv, PageType, SpinnerHasUpload, NamesOwnFile
  <2>3. TokenType' /\ ParsesHaveOwnToken'
    BY <1>0, <1>1, <2>1 DEF TokenInv, TokenType, ParsesHaveOwnToken, Token
  <2>4. \A t \in Token : sent[t] # {} => t <= issued'
    BY <1>0, <2>1 DEF TokenType, TokensUsed, Token
  <2>5. \A u \in Call \cup Csv : token[u] # None => token[u] <= issued'
    <3> SUFFICES ASSUME NEW u \in Call \cup Csv, token[u] # None PROVE token[u] <= issued'
      OBVIOUS
    <3>1. token[u] \in Token /\ token[u] <= issued
      BY <1>0 DEF TokenType, TokensUsed
    <3> QED
      BY <1>0, <2>1, <3>1 DEF TokenType, Token
  <2>6. \A t \in Token : \A c \in sent[t] \cap Call : widget' # t
    <3> SUFFICES ASSUME NEW t \in Token, NEW c \in sent[t] \cap Call PROVE widget' # t
      OBVIOUS
    <3>1. t <= issued
      BY <1>0 DEF TokensUsed
    <3> QED
      BY <1>0, <2>1, <3>1 DEF TokenType, Token
  <2>7. TokensUsed'
    BY <1>0, <1>1, <1>2, <2>1, <2>4, <2>5, <2>6 DEF TokensUsed, TokenType, Token
  <2> QED
    BY <1>0, <1>2, <2>1, <2>2, <2>3, <2>7, WorkerStays DEF TokenInv
<1>5. CASE WorkerStep
  <2>1. UNCHANGED <<view, csv, widget, issued>>
    BY <1>5 DEF WorkerStep
  <2>2. PageInv' /\ TokenInv'
    BY <1>0, <1>1, <1>2, <2>1
    DEF PageInv, PageType, SpinnerHasUpload, NamesOwnFile,
        TokenInv, TokenType, TokensUsed, ParsesHaveOwnToken
  <2>3. WorkerType'
    BY <1>0, <1>5, WorkerServes, WorkerAges DEF WorkerStep
  <2> QED
    BY <1>2, <2>2, <2>3
<1> QED
  BY <1>3, <1>4, <1>5
-----------------------------------------------------------------------------
LEMMA DemoInvInit == Init => DemoInv
<1> SUFFICES ASSUME Init PROVE DemoInv
  OBVIOUS
<1>1. PageType
  BY IdleView DEF Init, PageType, CallPc, NoCsv
<1>2. TokenType /\ CsvPcType /\ WorkerType
  BY DEF Init, TokenType, CsvPcType, WorkerType, Worker!Init
<1>3. InFlight = {}
  BY DEF Init, InFlight
<1>4. SpinnerHasUpload /\ SamplesKnown /\ NamesOwnFile
  BY <1>3, IdleView DEF Init, SpinnerHasUpload, SamplesKnown, NamesOwnFile
<1>5. TokensUsed /\ ParsesHaveOwnToken
  BY <1>3 DEF Init, TokensUsed, ParsesHaveOwnToken
<1> QED
  BY <1>1, <1>2, <1>4, <1>5, DemoParts DEF PageInv, TokenInv

LEMMA DemoInvNext == DemoInv /\ [Next]_vars => DemoInv'
<1> SUFFICES ASSUME DemoInv, [Next]_vars PROVE DemoInv'
  OBVIOUS
<1>1. CASE DragEnter \/ DragLeave \/ Reset \/ Solve \/ WorkerStep
  BY <1>1, OtherStep
<1>2. CASE \E c \in Call : Handle(c)
  BY <1>2, CallStep
<1>3. CASE \E d \in Csv : HandleCsv(d)
  BY <1>3, CsvStep
<1>4. CASE UNCHANGED vars
  BY <1>4
  DEF DemoInv, TypeOK, SpinnerHasUpload, SamplesKnown, NamesOwnFile, TokensUsed,
      ParsesHaveOwnToken, InFlight, vars, pageVars, tokenVars, workerVars
<1> QED
  BY <1>1, <1>2, <1>3, <1>4 DEF Next

LEMMA DemoInvariant == Spec => []DemoInv
<1>1. Init => DemoInv
  BY DemoInvInit
<1>2. DemoInv /\ [Next]_vars => DemoInv'
  BY DemoInvNext
<1> QED
  BY <1>1, <1>2, PTL DEF Spec

(* The reducer's state is one of its union's members, and every handler is *)
(* suspended at one of its awaits (useDemo.ts, state.ts).                  *)
THEOREM DemoType == Spec => []TypeOK
<1>1. DemoInv => TypeOK
  BY DEF DemoInv
<1> QED
  BY <1>1, DemoInvariant, PTL

(* The busy ref is up exactly while one upload is in flight, and a spinner *)
(* names that upload, however many files are dropped, picked or sampled.   *)
THEOREM OneUploadBehindTheSpinner == Spec => []SpinnerHasUpload
<1>1. DemoInv => SpinnerHasUpload
  BY DEF DemoInv
<1> QED
  BY <1>1, DemoInvariant, PTL

(* Milestones and results are shown under the name of the file they are    *)
(* about, and called sample data exactly when they are.                    *)
THEOREM ResultsAreTheFilesOwn == Spec => []ShowsOwnFile
<1>1. DemoInv => ShowsOwnFile
  BY DEF DemoInv, NamesOwnFile, ShowsOwnFile
<1> QED
  BY <1>1, DemoInvariant, PTL

(* No two uploads leave with one Turnstile token.                          *)
THEOREM UploadsHaveOwnToken == Spec => []ParsesHaveOwnToken
<1>1. DemoInv => ParsesHaveOwnToken
  BY DEF DemoInv
<1> QED
  BY <1>1, DemoInvariant, PTL

(* A spinner goes with its upload's end, or to the error of an earlier     *)
(* sample that could not be fetched: by no other handler.                  *)
LEMMA SpinnerGoes ==
  ASSUME DemoInv, Next, view.status = "parsing", view'.status # "parsing"
  PROVE  \/ pc'[view.file] = "done"
         \/ \E c \in sample : pc[c] = "fetching" /\ pc'[c] = "done"
<1>0. /\ PageInv /\ PageType /\ busy /\ InFlight = {view.file}
      /\ view.file \in Call
  BY DemoParts DEF PageInv, SpinnerHasUpload, InFlight
<1>1. ASSUME NEW c \in Call, NEW s, NEW class, HandleFile(c, s, class, view)
      PROVE  FALSE
  BY <1>0, <1>1 DEF HandleFile, Show
<1>2. PICK c \in Call : Handle(c)
  BY DEF Next, DragEnter, DragLeave, Reset, OffersParseAnother, OffersTryAnother, Solve,
         WorkerStep, HandleCsv, ClickCsv, CsvToken, CsvPost, CsvAnswer, pageVars
<1>3. ~Drop(c) /\ ~Pick(c) /\ ~ClickSample(c)
  BY <1>1 DEF Drop, Pick, ClickSample, TakesDrop
<1>4. CASE SampleAnswers(c)
  <2>1. pc[c] = "fetching" /\ pc' = [pc EXCEPT ![c] = "done"]
    BY <1>1, <1>4 DEF SampleAnswers
  <2>2. c \in sample /\ pc'[c] = "done"
    BY <1>0, <2>1 DEF PageInv, SamplesKnown, PageType
  <2> QED
    BY <2>1, <2>2
<1>5. ~AwaitToken(c) /\ ~SubmitAccepted(c)
  BY DEF AwaitToken, SubmitAccepted
<1>6. ~StreamProgress(c)
  <2>1. Progressed(c).status = "parsing"
    BY <1>0, ProgressedView DEF PageType
  <2> QED
    BY <2>1 DEF StreamProgress, Show
<1>7. CASE SubmitRefused(c) \/ SubmitLost(c) \/ StreamResult(c) \/ StreamError(c)
  <2>1. pc[c] \in {"submit", "stream"} /\ pc' = [pc EXCEPT ![c] = "done"]
    BY <1>7 DEF SubmitRefused, SubmitLost, StreamResult, StreamError, Fail, Succeed
  <2>2. c = view.file
    BY <1>0, <2>1 DEF InFlight
  <2> QED
    BY <1>0, <2>1, <2>2 DEF PageType
<1> QED
  BY <1>2, <1>3, <1>4, <1>5, <1>6, <1>7 DEF Handle

THEOREM SpinnersLeaveWithTheirUpload == Spec => SpinnerLeaves
<1> DEFINE Left == view.status = "parsing" /\ view'.status # "parsing" =>
                     \/ pc'[view.file] = "done"
                     \/ \E c \in sample : pc[c] = "fetching" /\ pc'[c] = "done"
<1>1. DemoInv /\ [Next]_vars => [Left]_vars
  <2> SUFFICES ASSUME DemoInv, Next PROVE Left
    OBVIOUS
  <2> QED
    BY SpinnerGoes
<1> QED
  BY <1>1, DemoInvariant, PTL DEF Spec, SpinnerLeaves
=============================================================================
