------------------------------ MODULE Responses ------------------------------
(***************************************************************************)
(* What becomes of an answer on its way from a handler to the client:      *)
(* GzipWriter of the compression middleware, which holds a body back until *)
(* it knows whether to compress it, the writer of the logger around it,    *)
(* and net/http underneath.  A body is the sequence of the pieces that the *)
(* handler writes; a piece stands for the place in the body where it ends. *)
(***************************************************************************)
EXTENDS Naturals, Sequences

CONSTANT Threshold   \* bodies longer than this are compressed
ASSUME ThresholdAssumption == Threshold \in Nat

Pieces ==
  {b \in Seq(Nat \ {0}) : \A i, j \in DOMAIN b : i < j => b[i] < b[j]}

Size(body) == IF body = <<>> THEN 0 ELSE body[Len(body)]

(* Content-Length: none, or one number.                                    *)
NoLength == <<>>

(* The fields of GzipWriter, the header map, what has been sent, the log.  *)
Fresh ==
  [started |-> FALSE, headers |-> FALSE, status |-> 200, buffer |-> <<>>,
   length |-> NoLength, encoding |-> FALSE,
   wire |-> 0, asGzip |-> FALSE, plain |-> <<>>, zipped |-> <<>>,
   closed |-> FALSE, logged |-> 0]

-----------------------------------------------------------------------------
(* net/http sends the header once, as it is at the first WriteHeader, and  *)
(* before the body in any case; its size is no concern of the client.      *)
NetHeader(r, status) ==
  IF r.wire = 0 THEN [r EXCEPT !.wire = status, !.asGzip = r.encoding] ELSE r

NetWrite(r, body) == [NetHeader(r, 200) EXCEPT !.plain = @ \o body]

(* loggingResponseWriter.WriteHeader: the last status is the one logged.   *)
LogHeader(r, status) == [NetHeader(r, status) EXCEPT !.logged = status]

-----------------------------------------------------------------------------
(* GzipWriter.                                                             *)

(* Mutant: the buffer is compressed before the encoding is announced.      *)
StartGzipUnannounced(r) ==
  LET h == IF r.headers THEN r
                        ELSE [LogHeader(r, r.status) EXCEPT !.headers = TRUE]
  IN IF r.started THEN r
     ELSE [h EXCEPT !.started = TRUE, !.length = NoLength, !.encoding = TRUE,
                    !.zipped = @ \o r.buffer, !.buffer = <<>>]

StartGzip(r) ==
  LET a == [r EXCEPT !.started = TRUE, !.length = NoLength, !.encoding = TRUE]
      h == IF a.headers THEN a
                        ELSE [LogHeader(a, a.status) EXCEPT !.headers = TRUE]
  IN IF r.started THEN r
     ELSE [h EXCEPT !.zipped = @ \o r.buffer, !.buffer = <<>>]

(* The decision waits for the body unless the handler gave its length.     *)
GWriteHeader(r, status) ==
  LET h == [r EXCEPT !.status = status] IN
  CASE r.headers               -> r
    [] ~r.headers /\ r.length = NoLength -> h
    [] OTHER -> IF r.length[1] > Threshold THEN StartGzip(h)
                ELSE [LogHeader(h, status) EXCEPT !.headers = TRUE]

(* Mutant: the buffer is compressed when it has reached the threshold.     *)
GWriteEager(r, piece) ==
  LET h == [r EXCEPT !.buffer = Append(@, piece)] IN
  CASE r.started                     -> [r EXCEPT !.zipped = Append(@, piece)]
    [] ~r.started /\ Size(h.buffer) >= Threshold -> StartGzip(h)
    [] OTHER                         -> h

GWrite(r, piece) ==
  LET h == [r EXCEPT !.buffer = Append(@, piece)] IN
  CASE r.started                     -> [r EXCEPT !.zipped = Append(@, piece)]
    [] ~r.started /\ Size(h.buffer) > Threshold -> StartGzip(h)
    [] OTHER                         -> h

GClose(r) ==
  LET h == IF r.headers THEN r ELSE LogHeader(r, r.status) IN
  IF r.started THEN [r EXCEPT !.closed = TRUE]
  ELSE IF r.buffer = <<>> THEN h ELSE NetWrite(h, r.buffer)

-----------------------------------------------------------------------------
(* What the client makes of it.                                            *)
Readable(r) ==
  IF r.asGzip THEN r.closed /\ r.plain = <<>> ELSE r.zipped = <<>>
Body(r) == IF r.asGzip THEN r.zipped ELSE r.plain
=============================================================================
