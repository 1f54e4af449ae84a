----------------------------- MODULE ServerProofs -----------------------------
(***************************************************************************)
(* The server, for every set of forms, accruals and handlers, every        *)
(* threshold and every number of withdrawals: what it tells its client is  *)
(* what it did, and what the client reads is what the handler wrote.       *)
(***************************************************************************)
EXTENDS Server, AmountProofs, SumProofs, SequenceTheorems

USE DEF pvars, db, rvars, sv

-----------------------------------------------------------------------------
(* Bodies.                                                                 *)

(* Writing a piece moves it from what is to come to what is there.         *)
LEMMA OnePiece ==
  ASSUME NEW b \in Seq(Nat), NEW t \in Seq(Nat), t # <<>>
  PROVE  /\ Append(b, Head(t)) \in Seq(Nat) /\ Tail(t) \in Seq(Nat)
         /\ Append(b, Head(t)) \o Tail(t) = b \o t
         /\ b \o <<Head(t)>> = Append(b, Head(t))
<1>1. Head(t) \in Nat /\ Tail(t) \in Seq(Nat) /\ <<Head(t)>> \in Seq(Nat)
  BY HeadTailProperties
<1>2. b \o <<Head(t)>> = Append(b, Head(t)) /\ Append(b, Head(t)) \in Seq(Nat)
  BY <1>1, AppendIsConcat, AppendProperties
<1>3. t = <<Head(t)>> \o Tail(t)
  BY <1>1, HeadTailProperties
<1> QED BY <1>1, <1>2, <1>3, ConcatAssociative

(* The size of a part that a body starts with.                             *)
LEMMA PartSize ==
  ASSUME NEW b \in Seq(Nat), NEW t \in Seq(Nat), b \o t \in Pieces
  PROVE  Size(b) \in Nat /\ Size(b \o t) \in Nat /\ Size(b) <= Size(b \o t)
<1> DEFINE s == b \o t
<1>1. /\ s \in Seq(Nat) /\ Len(s) = Len(b) + Len(t)
      /\ Len(b) \in Nat /\ Len(t) \in Nat
      /\ \A i \in 1..Len(b) : s[i] = b[i]
  BY ConcatProperties, LenProperties
<1>2. /\ b # <<>> => Len(b) > 0 /\ b[Len(b)] \in Nat
      /\ s # <<>> => Len(s) > 0 /\ s[Len(s)] \in Nat
      /\ s = <<>> => b = <<>>
  BY <1>1, EmptySeq, ElementOfSeq
<1>3. CASE b = <<>>
  BY <1>2, <1>3 DEF Size
<1>4. CASE b # <<>>
  <2>1. s[Len(b)] <= s[Len(s)]
    <3>1. CASE Len(b) = Len(s)
      BY <1>1, <1>2, <1>4, <3>1
    <3>2. CASE Len(b) < Len(s)
      <4>1. Len(b) \in DOMAIN s /\ Len(s) \in DOMAIN s
        BY <1>1, <1>2, <1>4, <3>2, LenProperties
      <4>2. s[Len(b)] < s[Len(s)]
        BY <3>2, <4>1 DEF Pieces
      <4>3. s[Len(b)] \in Nat /\ s[Len(s)] \in Nat
        BY <1>1, <4>1, LenProperties, ElementOfSeq
      <4> HIDE DEF s
      <4> QED BY <4>2, <4>3
    <3>3. Len(b) <= Len(s) /\ Len(b) \in Nat /\ Len(s) \in Nat
      BY <1>1
    <3> HIDE DEF s
    <3> QED BY <3>1, <3>2, <3>3
  <2> QED BY <1>1, <1>2, <1>4, <2>1 DEF Size
<1> QED BY <1>3, <1>4

-----------------------------------------------------------------------------
(* GzipWriter, over the logger's writer.                                   *)

Response ==
  [started : BOOLEAN, headers : BOOLEAN, status : Nat, buffer : Seq(Nat),
   length : Seq(Nat), encoding : BOOLEAN,
   wire : Nat, asGzip : BOOLEAN, plain : Seq(Nat), zipped : Seq(Nat),
   closed : BOOLEAN, logged : Nat]

(* Before the handler writes.                                              *)
Untouched(r) ==
  /\ ~r.started /\ ~r.headers /\ r.status = 200 /\ r.buffer = <<>>
  /\ ~r.encoding /\ r.wire = 0 /\ ~r.asGzip /\ r.plain = <<>>
  /\ r.zipped = <<>> /\ r.logged = 0

(* What has not been written yet is t: the body is held back, ...          *)
Held(r, w, t) ==
  /\ ~r.started /\ r.buffer \o t = w.body /\ Size(r.buffer) <= Threshold
  /\ r.status = w.status
  /\ ~r.encoding /\ ~r.asGzip /\ r.plain = <<>> /\ r.zipped = <<>>
  /\ r.headers => /\ r.wire = w.status /\ r.logged = w.status
                  /\ Size(w.body) <= Threshold
  /\ ~r.headers => r.wire = 0

(* ... it is being compressed, ...                                         *)
Zipping(r, w, t) ==
  /\ r.started /\ r.headers /\ r.zipped \o t = w.body
  /\ Size(w.body) > Threshold
  /\ r.encoding /\ r.asGzip /\ r.plain = <<>>
  /\ r.wire = w.status /\ r.logged = w.status

(* ... or there is no GzipWriter.                                          *)
Direct(r, w, t) ==
  /\ ~r.encoding /\ ~r.asGzip /\ r.zipped = <<>> /\ r.plain \o t = w.body
  /\ \/ r.wire = w.status /\ (w.explicit => r.logged = w.status)
     \/ r.wire = 0 /\ w.status = 200 /\ ~w.explicit

(* The answer is on its way.                                               *)
Done(r, w, gzip) ==
  /\ Readable(r) /\ Body(r) = w.body
  /\ r.asGzip <=> gzip /\ Size(w.body) > Threshold
  /\ w.explicit \/ gzip => r.wire = w.status /\ r.logged = w.status
  /\ \/ r.wire = w.status
     \/ r.wire = 0 /\ w.status = 200 /\ ~r.encoding /\ ~r.asGzip

LEMMA NetTyped ==
  ASSUME NEW r \in Response, NEW s \in Nat
  PROVE  NetHeader(r, s) \in Response /\ LogHeader(r, s) \in Response
  BY DEF Response, NetHeader, LogHeader

LEMMA NetWriteTyped ==
  ASSUME NEW r \in Response, NEW b \in Seq(Nat)
  PROVE  NetWrite(r, b) \in Response
<1> DEFINE h == NetHeader(r, 200)
<1>1. h \in Response
  BY NetTyped
<1>2. h.plain \in Seq(Nat)
  BY <1>1 DEF Response
<1>3. h.plain \o b \in Seq(Nat)
  BY <1>2, ConcatProperties
<1> HIDE DEF h
<1> SUFFICES [h EXCEPT !.plain = h.plain \o b] \in Response
  BY DEF NetWrite, h
<1> QED BY <1>1, <1>3 DEF Response

(* StartGzip by its fields, for a writer that has not started.             *)
LEMMA StartGzipFields ==
  ASSUME NEW r \in Response, ~r.started
  PROVE  LET g == StartGzip(r) IN
         /\ g \in Response
         /\ g.started /\ g.headers /\ g.encoding /\ g.plain = r.plain
         /\ g.zipped = r.zipped \o r.buffer
         /\ ~r.headers /\ r.wire = 0
              => g.asGzip /\ g.wire = r.status /\ g.logged = r.status
<1> DEFINE a == [r EXCEPT !.started = TRUE, !.length = NoLength,
                          !.encoding = TRUE]
           n == [a EXCEPT !.headers = TRUE]
           h == IF a.headers THEN a
                ELSE [LogHeader(a, a.status) EXCEPT !.headers = TRUE]
<1>1. a \in Response /\ <<>> \in Seq(Nat)
  BY EmptySeq DEF Response, NoLength
<1>2. /\ a.headers = r.headers /\ a.status = r.status /\ a.wire = r.wire
      /\ a.plain = r.plain /\ a.zipped = r.zipped /\ a.buffer = r.buffer
      /\ a.started /\ a.encoding /\ a.status \in Nat
  BY DEF Response
<1> HIDE DEF a
<1>3. h \in Response
  <2>1. LogHeader(a, a.status) \in Response
    BY <1>1, <1>2, NetTyped
  <2> QED BY <1>1, <2>1 DEF Response
<1>4. /\ h.headers /\ h.started /\ h.encoding /\ h.plain = r.plain
      /\ h.zipped = r.zipped /\ h.buffer = r.buffer
      /\ ~r.headers /\ r.wire = 0
           => h.asGzip /\ h.wire = r.status /\ h.logged = r.status
  BY <1>1, <1>2 DEF Response, LogHeader, NetHeader
<1> HIDE DEF h
<1>5. h.zipped \o h.buffer \in Seq(Nat)
  <2>1. h.zipped \in Seq(Nat) /\ h.buffer \in Seq(Nat)
    BY <1>3 DEF Response
  <2> QED BY <2>1, ConcatProperties
<1> DEFINE z == h.zipped \o r.buffer
           g == [h EXCEPT !.zipped = z, !.buffer = <<>>]
<1>6. StartGzip(r) = g /\ z = r.zipped \o r.buffer /\ z \in Seq(Nat)
  <2>1. StartGzip(r) = g
    BY DEF StartGzip, h, a
  <2> QED BY <1>4, <1>5, <2>1
<1> HIDE DEF z
<1>7. /\ g \in Response /\ g.zipped = z
      /\ g.started = h.started /\ g.headers = h.headers
      /\ g.encoding = h.encoding /\ g.plain = h.plain /\ g.asGzip = h.asGzip
      /\ g.wire = h.wire /\ g.logged = h.logged
  BY <1>1, <1>3, <1>6 DEF Response
<1> HIDE DEF g
<1> QED BY <1>4, <1>6, <1>7

-----------------------------------------------------------------------------
(* What each call makes of an answer.                                      *)

Sane(w) == w \in Handler /\ (w.explicit \/ w.status = 200)

LEMMA SaneFields ==
  ASSUME NEW w, Sane(w)
  PROVE  /\ w.body \in Pieces /\ w.body \in Seq(Nat) /\ w.status \in Nat
         /\ w.status # 0 /\ Size(w.body) \in Nat
<1>1. w.body \in Pieces /\ w.status \in Nat /\ w.status # 0
  BY DEF Sane, Handler
<1>2. w.body \in Seq(Nat)
  BY <1>1, SeqMonotonic DEF Pieces
<1>3. <<>> \o w.body = w.body /\ <<>> \in Seq(Nat)
  BY <1>2, ConcatEmptySeq, EmptySeq
<1> QED BY <1>1, <1>2, <1>3, PartSize

(* GzipWriter.WriteHeader.                                                 *)
LEMMA HeaderHeld ==
  ASSUME NEW r \in Response, NEW w, Sane(w), Untouched(r),
         r.length \in {NoLength, <<Size(w.body)>>}
  PROVE  LET h == GWriteHeader(r, w.status) IN
         /\ h \in Response
         /\ Held(h, w, w.body) \/ Zipping(h, w, w.body)
<1> DEFINE s == [r EXCEPT !.status = w.status]
<1>1. /\ w.status \in Nat /\ w.body \in Seq(Nat)
      /\ <<>> \o w.body = w.body /\ <<>> \in Seq(Nat) /\ Size(<<>>) = 0
      /\ Size(w.body) \in Nat
  BY SaneFields, ConcatEmptySeq, EmptySeq DEF Size
<1>2. s \in Response /\ s.status = w.status /\ Threshold \in Nat
  BY <1>1, ThresholdAssumption DEF Response
<1>3. /\ ~s.started /\ ~s.headers /\ s.buffer = <<>> /\ ~s.encoding
      /\ s.wire = 0 /\ ~s.asGzip /\ s.plain = <<>> /\ s.zipped = <<>>
  BY DEF Untouched, Response
<1>4. <<>> \o <<>> = <<>>
  BY <1>1, ConcatEmptySeq
<1>5. CASE r.length = NoLength
  <2>1. GWriteHeader(r, w.status) = s
    BY <1>5 DEF GWriteHeader, Untouched
  <2> HIDE DEF s
  <2>2. Held(s, w, w.body)
    BY <1>1, <1>2, <1>3 DEF Held
  <2> QED BY <1>2, <2>1, <2>2
<1>6. CASE r.length # NoLength /\ Size(w.body) > Threshold
  <2>1. r.length[1] = Size(w.body)
    BY <1>6
  <2>2. GWriteHeader(r, w.status) = StartGzip(s)
    BY <1>6, <2>1 DEF GWriteHeader, Untouched
  <2> HIDE DEF s
  <2> DEFINE g == StartGzip(s)
  <2>3. /\ g \in Response /\ g.started /\ g.headers /\ g.encoding
        /\ g.plain = s.plain /\ g.zipped = s.zipped \o s.buffer
        /\ g.asGzip /\ g.wire = s.status /\ g.logged = s.status
    BY <1>2, <1>3, StartGzipFields
  <2> HIDE DEF g
  <2>4. g.zipped \o w.body = w.body /\ g.plain = <<>>
    BY <1>1, <1>3, <1>4, <2>3
  <2>5. Zipping(g, w, w.body)
    BY <1>2, <1>6, <2>3, <2>4 DEF Zipping
  <2> QED BY <2>2, <2>3, <2>5 DEF g
<1>7. CASE r.length # NoLength /\ ~(Size(w.body) > Threshold)
  <2> DEFINE h == [LogHeader(s, w.status) EXCEPT !.headers = TRUE]
  <2>1. r.length[1] = Size(w.body)
    BY <1>7
  <2>2. GWriteHeader(r, w.status) = h
    BY <1>7, <2>1 DEF GWriteHeader, Untouched
  <2> HIDE DEF s
  <2>3. LogHeader(s, w.status) \in Response
    BY <1>1, <1>2, NetTyped
  <2>4. h \in Response
    BY <2>3 DEF Response
  <2>5. /\ h.headers /\ ~h.started /\ h.buffer = <<>> /\ ~h.encoding
        /\ h.wire = w.status /\ h.logged = w.status /\ ~h.asGzip
        /\ h.plain = <<>> /\ h.zipped = <<>> /\ h.status = w.status
    BY <1>1, <1>2, <1>3 DEF LogHeader, NetHeader, Response
  <2>6. Held(h, w, w.body)
    <3> HIDE DEF h
    <3> QED BY <1>1, <1>2, <1>7, <2>5 DEF Held
  <2> QED BY <2>2, <2>4, <2>6
<1> QED BY <1>5, <1>6, <1>7

(* GzipWriter.Write.                                                       *)
LEMMA WriteHeld ==
  ASSUME NEW r \in Response, NEW w, Sane(w), NEW t \in Seq(Nat), t # <<>>,
         Held(r, w, t)
  PROVE  LET h == GWrite(r, Head(t)) IN
         /\ h \in Response
         /\ Held(h, w, Tail(t)) \/ Zipping(h, w, Tail(t))
<1> DEFINE b == Append(r.buffer, Head(t))
           h == [r EXCEPT !.buffer = b]
<1>1. /\ b \in Seq(Nat) /\ Tail(t) \in Seq(Nat) /\ b \o Tail(t) = w.body
      /\ r.buffer \in Seq(Nat)
  <2>1. r.buffer \in Seq(Nat) /\ r.buffer \o t = w.body
    BY DEF Response, Held
  <2> QED BY <2>1, OnePiece
<1>2. Size(b) \in Nat /\ Size(w.body) \in Nat /\ Size(b) <= Size(w.body)
  BY <1>1, PartSize, SaneFields
<1>3. /\ h \in Response /\ h.buffer = b /\ ~h.started /\ h.status = w.status
      /\ h.headers = r.headers /\ h.wire = r.wire /\ h.logged = r.logged
      /\ ~h.encoding /\ ~h.asGzip /\ h.plain = <<>> /\ h.zipped = <<>>
  BY <1>1 DEF Response, Held
<1>4. Threshold \in Nat /\ <<>> \o b = b
  BY <1>1, ThresholdAssumption, ConcatEmptySeq
<1>5. CASE Size(b) > Threshold
  <2>1. GWrite(r, Head(t)) = StartGzip(h)
    BY <1>3, <1>5 DEF GWrite, Held
  <2>2. ~r.headers /\ r.wire = 0 /\ Size(w.body) > Threshold
    BY <1>2, <1>4, <1>5 DEF Held
  <2> HIDE DEF h, b
  <2> DEFINE g == StartGzip(h)
  <2>3. /\ g \in Response /\ g.started /\ g.headers /\ g.encoding
        /\ g.plain = h.plain /\ g.zipped = h.zipped \o b
        /\ g.asGzip /\ g.wire = h.status /\ g.logged = h.status
    BY <1>3, <2>2, StartGzipFields
  <2> HIDE DEF g
  <2>4. g.zipped = b
    BY <1>3, <1>4, <2>3
  <2>5. Zipping(g, w, Tail(t))
    BY <1>1, <1>3, <2>2, <2>3, <2>4 DEF Zipping
  <2>6. GWrite(r, Head(t)) = g
    BY <2>1 DEF g
  <2> QED BY <2>3, <2>5, <2>6
<1>6. CASE ~(Size(b) > Threshold)
  <2>1. GWrite(r, Head(t)) = h
    BY <1>3, <1>6 DEF GWrite, Held
  <2> HIDE DEF h, b
  <2>2. Size(b) <= Threshold
    BY <1>2, <1>4, <1>6
  <2>3. Held(h, w, Tail(t))
    BY <1>1, <1>3, <2>2 DEF Held
  <2> QED BY <1>3, <2>1, <2>3
<1> QED BY <1>5, <1>6

LEMMA WriteZipping ==
  ASSUME NEW r \in Response, NEW w, NEW t \in Seq(Nat), t # <<>>,
         Zipping(r, w, t)
  PROVE  /\ GWrite(r, Head(t)) \in Response
         /\ Zipping(GWrite(r, Head(t)), w, Tail(t))
<1> DEFINE z == Append(r.zipped, Head(t))
<1>1. z \in Seq(Nat) /\ z \o Tail(t) = w.body
  <2>1. r.zipped \in Seq(Nat) /\ r.zipped \o t = w.body
    BY DEF Response, Zipping
  <2> QED BY <2>1, OnePiece
<1>2. GWrite(r, Head(t)) = [r EXCEPT !.zipped = z]
  BY DEF GWrite, Zipping
<1> HIDE DEF z
<1> QED BY <1>1, <1>2 DEF Response, Zipping

(* Without a GzipWriter.                                                   *)
LEMMA HeaderDirect ==
  ASSUME NEW r \in Response, NEW w, Sane(w), Untouched(r)
  PROVE  /\ LogHeader(r, w.status) \in Response
         /\ Direct(LogHeader(r, w.status), w, w.body)
<1>1. w.status \in Nat /\ <<>> \o w.body = w.body
  BY SaneFields, ConcatEmptySeq
<1>2. LogHeader(r, w.status) \in Response
  BY <1>1, NetTyped
<1>3. Direct(LogHeader(r, w.status), w, w.body)
  BY <1>1 DEF Direct, Untouched, LogHeader, NetHeader, Response
<1> QED BY <1>2, <1>3

LEMMA NetHeaderDirect ==
  ASSUME NEW r \in Response, NEW w, Sane(w), NEW t, Direct(r, w, t)
  PROVE  /\ Direct(NetHeader(r, 200), w, t)
         /\ NetHeader(r, 200).wire = w.status
<1>1. CASE r.wire = w.status
  BY <1>1, SaneFields DEF Direct, NetHeader
<1>2. CASE r.wire = 0 /\ w.status = 200 /\ ~w.explicit
  <2> DEFINE h == [r EXCEPT !.wire = 200, !.asGzip = r.encoding]
  <2>1. /\ h.encoding = r.encoding /\ h.asGzip = r.encoding /\ h.wire = 200
        /\ h.plain = r.plain /\ h.zipped = r.zipped
    BY DEF Response
  <2>2. NetHeader(r, 200) = h
    BY <1>2 DEF NetHeader
  <2> HIDE DEF h
  <2>3. /\ ~r.encoding /\ ~r.asGzip /\ r.zipped = <<>>
        /\ r.plain \o t = w.body
    BY DEF Direct
  <2>4. Direct(h, w, t)
    BY <1>2, <2>1, <2>3 DEF Direct
  <2> QED BY <1>2, <2>1, <2>2, <2>4
<1> QED BY <1>1, <1>2 DEF Direct

LEMMA WriteDirect ==
  ASSUME NEW r \in Response, NEW w, Sane(w), NEW t \in Seq(Nat), t # <<>>,
         Direct(r, w, t)
  PROVE  /\ NetWrite(r, <<Head(t)>>) \in Response
         /\ Direct(NetWrite(r, <<Head(t)>>), w, Tail(t))
<1> DEFINE h == NetHeader(r, 200)
           p == h.plain \o <<Head(t)>>
<1>1. h \in Response /\ Direct(h, w, t) /\ h.wire = w.status
  BY NetTyped, NetHeaderDirect
<1>2. p \in Seq(Nat) /\ p \o Tail(t) = w.body
  <2> HIDE DEF h
  <2>1. h.plain \in Seq(Nat) /\ h.plain \o t = w.body
    BY <1>1 DEF Response, Direct
  <2>2. /\ p = Append(h.plain, Head(t)) /\ p \in Seq(Nat)
        /\ p \o Tail(t) = h.plain \o t
    BY <2>1, OnePiece
  <2> QED BY <2>1, <2>2
<1>3. NetWrite(r, <<Head(t)>>) = [h EXCEPT !.plain = p]
  BY DEF NetWrite
<1> HIDE DEF h, p
<1> QED BY <1>1, <1>2, <1>3 DEF Response, Direct

(* GzipWriter.Close.                                                       *)
LEMMA CloseHeld ==
  ASSUME NEW r \in Response, NEW w, Sane(w), Held(r, w, <<>>)
  PROVE  GClose(r) \in Response /\ Done(GClose(r), w, TRUE)
<1> DEFINE h == IF r.headers THEN r ELSE LogHeader(r, r.status)
           n == [h EXCEPT !.plain = h.plain \o r.buffer]
<1>1. /\ r.buffer \in Seq(Nat) /\ r.buffer = w.body /\ <<>> \o r.buffer = w.body
      /\ Size(w.body) <= Threshold /\ r.status = w.status
      /\ w.status \in Nat /\ w.status # 0
  <2>1. r.buffer \in Seq(Nat) /\ r.buffer \o <<>> = w.body
    BY DEF Response, Held
  <2> QED BY <2>1, ConcatEmptySeq, SaneFields DEF Held
<1>2. h \in Response
  BY <1>1, NetTyped
<1>3. /\ h.wire = w.status /\ h.logged = w.status /\ ~h.asGzip
      /\ h.plain = <<>> /\ h.zipped = <<>>
  <2>1. CASE r.headers
    BY <2>1 DEF Held
  <2>2. CASE ~r.headers
    <3>1. ~r.encoding /\ ~r.asGzip /\ r.plain = <<>> /\ r.zipped = <<>>
          /\ r.wire = 0
      BY <2>2 DEF Held
    <3> QED BY <1>1, <2>2, <3>1 DEF LogHeader, NetHeader, Response
  <2> QED BY <2>1, <2>2
<1>4. ~(Size(w.body) > Threshold)
  BY <1>1, SaneFields, ThresholdAssumption
<1>5. CASE r.buffer = <<>>
  <2>1. GClose(r) = h
    BY <1>5 DEF GClose, Held
  <2> HIDE DEF h
  <2>2. Done(h, w, TRUE)
    BY <1>1, <1>3, <1>4, <1>5 DEF Done, Readable, Body
  <2> QED BY <1>2, <2>1, <2>2
<1>6. CASE r.buffer # <<>>
  <2>1. GClose(r) = NetWrite(h, r.buffer)
    BY <1>6 DEF GClose, Held
  <2> HIDE DEF h
  <2>2. NetHeader(h, 200) = h
    BY <1>1, <1>3 DEF NetHeader
  <2>3. NetWrite(h, r.buffer) = n
    BY <2>2 DEF NetWrite
  <2>4. /\ n \in Response /\ n.plain = w.body /\ n.wire = w.status
        /\ n.logged = w.status /\ ~n.asGzip /\ n.zipped = <<>>
    <3>1. h.plain \o r.buffer = w.body /\ w.body \in Seq(Nat)
      BY <1>1, <1>3
    <3> QED BY <1>2, <1>3, <3>1 DEF Response
  <2> HIDE DEF n
  <2>5. Done(n, w, TRUE)
    BY <1>4, <2>4 DEF Done, Readable, Body
  <2> QED BY <2>1, <2>3, <2>4, <2>5
<1> QED BY <1>5, <1>6

LEMMA CloseZipping ==
  ASSUME NEW r \in Response, NEW w, Zipping(r, w, <<>>)
  PROVE  GClose(r) \in Response /\ Done(GClose(r), w, TRUE)
<1> DEFINE c == [r EXCEPT !.closed = TRUE]
<1>1. r.zipped = w.body
  <2>1. r.zipped \in Seq(Nat) /\ r.zipped \o <<>> = w.body
    BY DEF Response, Zipping
  <2> QED BY <2>1, ConcatEmptySeq
<1>2. GClose(r) = c
  BY DEF GClose, Zipping
<1>3. /\ c \in Response /\ c.closed /\ c.zipped = w.body /\ c.asGzip
      /\ c.plain = <<>> /\ c.wire = w.status /\ c.logged = w.status
  BY <1>1 DEF Response, Zipping
<1> HIDE DEF c
<1>4. Done(c, w, TRUE)
  BY <1>3 DEF Done, Readable, Body, Zipping
<1> QED BY <1>2, <1>3, <1>4

LEMMA CloseDirect ==
  ASSUME NEW r \in Response, NEW w, Direct(r, w, <<>>)
  PROVE  Done(r, w, FALSE)
<1>1. r.plain = w.body
  <2>1. r.plain \in Seq(Nat) /\ r.plain \o <<>> = w.body
    BY DEF Response, Direct
  <2> QED BY <2>1, ConcatEmptySeq
<1> QED BY <1>1 DEF Done, Direct, Readable, Body

(* net/http, at the end of the request.                                    *)
LEMMA DoneSent ==
  ASSUME NEW r \in Response, NEW w, Sane(w), NEW gzip, Done(r, w, gzip)
  PROVE  /\ Done(NetHeader(r, 200), w, gzip)
         /\ NetHeader(r, 200).wire = w.status
<1>1. CASE r.wire # 0
  BY <1>1 DEF Done, NetHeader
<1>2. CASE r.wire = 0
  <2> DEFINE h == [r EXCEPT !.wire = 200, !.asGzip = r.encoding]
  <2>1. w.status = 200 /\ ~r.encoding /\ ~r.asGzip
    BY <1>2, SaneFields DEF Done
  <2>2. /\ h.encoding = r.encoding /\ ~h.asGzip /\ h.wire = 200
        /\ h.plain = r.plain /\ h.zipped = r.zipped /\ h.closed = r.closed
    BY <2>1 DEF Response
  <2>3. NetHeader(r, 200) = h
    BY <1>2 DEF NetHeader
  <2>4. ~(w.explicit \/ gzip)
    BY <1>2, <2>1 DEF Done
  <2> HIDE DEF h
  <2>5. Done(h, w, gzip) /\ h.wire = w.status
    BY <2>1, <2>2, <2>4 DEF Done, Readable, Body
  <2> QED BY <2>3, <2>5
<1> QED BY <1>1, <1>2

-----------------------------------------------------------------------------
(* The request and its answer.                                             *)

Answering == {"header", "write", "timeout", "log", "sent"}
Request == [kind : {"none", "withdraw", "balance", "list", "garbled", "other"},
            gzip : BOOLEAN, sum : Decimal, number : Seq(Character)]

(* The way of an answer.  After the write timeout nobody reads it, and the *)
(* timeout of the processing, which is longer, may spoil what is logged.   *)
AnswerInv ==
  /\ resp \in Response /\ todo \in Seq(Nat \ {0}) /\ req \in Request
  /\ at \in {"idle", "check", "store", "query"} \cup Answering
  /\ late \subseteq {"write", "processing"}
  /\ "processing" \in late => "write" \in late
  /\ at = "idle" => Waiting
  /\ at \in {"check", "store", "query"} =>
       Untouched(resp) /\ resp.length = NoLength
  /\ at \in Answering => Sane(wrote)
  /\ at = "header" => /\ Untouched(resp) /\ todo = wrote.body
                      /\ resp.length \in {NoLength, <<Size(wrote.body)>>}
  /\ at = "write" =>
       IF req.gzip THEN Held(resp, wrote, todo) \/ Zipping(resp, wrote, todo)
                   ELSE Direct(resp, wrote, todo)
  /\ at = "timeout" => Done(resp, wrote, req.gzip)
  /\ at \in {"log", "sent"} /\ "write" \notin late =>
       Done(resp, wrote, req.gzip)
  /\ at = "sent" /\ "write" \notin late => resp.wire = wrote.status

(* What a withdrawal did to the table, while it is answered.               *)
TellInv ==
  /\ balance \in Nat /\ earned \in Nat /\ rows \in Seq(Int)
  /\ at \in {"check", "store"} => before = Len(rows)
  /\ at = "query" => req.kind # "withdraw"
  /\ at \in Answering /\ req.kind = "withdraw" =>
       /\ wrote.status = 200 =>
            /\ Len(rows) = before + 1
            /\ Precise(req.sum) => Nearest(rows[before + 1], req.sum)
       /\ wrote.status \in {400, 402, 422} => Len(rows) = before

RequestInv == AnswerInv /\ TellInv

LEMMA FreshTyped ==
  Fresh \in Response /\ Untouched(Fresh) /\ Fresh.length = NoLength
  BY EmptySeq DEF Fresh, Response, Untouched, NoLength

LEMMA NoRequestTyped == NoRequest \in Request /\ NoSum \in Decimal
<1>1. <<>> \in Seq(Character) /\ <<>> \in [1..0 -> Digit]
  BY EmptySeq
<1>2. NoSum \in Decimal
  BY <1>1 DEF NoSum, Decimal, MaxDigits
<1> QED BY <1>1, <1>2 DEF NoRequest, Request

LEMMA SumsAreInt ==
  ASSUME NEW d \in Decimal
  PROVE  Decoded(d) \subseteq Int /\ Accrued(d) \in Int
<1>1. Decoded(d) \subseteq Int
  BY DecodedInt
<1>2. Kopecks(d) \in Nat
  BY DecimalParts
<1> QED BY <1>1, <1>2 DEF Accrued

LEMMA RequestInit == ServerInit => RequestInv
<1> SUFFICES ASSUME ServerInit PROVE RequestInv
  OBVIOUS
<1> USE FreshTyped, NoRequestTyped, EmptySeq
    DEF ServerInit, Waiting
<1>1. AnswerInv
  BY DEF AnswerInv, Answering
<1>2. TellInv
  BY DEF TellInv, Answering
<1> QED BY <1>1, <1>2 DEF RequestInv

(* The request is over.                                                    *)
LEMMA ResetKeeps ==
  ASSUME RequestInv, Reset, UNCHANGED db PROVE RequestInv'
<1>1. AnswerInv'
  BY FreshTyped, NoRequestTyped, EmptySeq DEF AnswerInv, Answering, Reset, Waiting
<1>2. TellInv'
  BY DEF RequestInv, TellInv, Answering, Reset
<1> QED BY <1>1, <1>2 DEF RequestInv

(* The process goes its way.                                               *)
LEMMA StutterKeeps ==
  ASSUME RequestInv, UNCHANGED <<db, rvars>> PROVE RequestInv'
  BY DEF RequestInv, AnswerInv, TellInv, Answering, Waiting

LEMMA CreditKeeps == ASSUME RequestInv, Credit PROVE RequestInv'
<1>1. AnswerInv'
  BY DEF RequestInv, AnswerInv, Answering, Waiting, Credit
<1>2. PICK d \in Granted : Accrued(d) > 0 /\ balance' = balance + Accrued(d)
                           /\ earned' = Accrued(d)
  BY DEF Credit
<1>3. Accrued(d) \in Int
  BY GrantedAssumption, SumsAreInt
<1>4. balance' \in Nat /\ earned' \in Nat
  BY <1>2, <1>3 DEF RequestInv, TellInv
<1>5. TellInv'
  BY <1>4 DEF RequestInv, TellInv, Credit
<1> QED BY <1>1, <1>5 DEF RequestInv

-----------------------------------------------------------------------------
(* The steps of a request.                                                 *)

LEMMA AskKeeps ==
  ASSUME RequestInv, NEW where \in {"check", "query"}, NEW r \in Request,
         where = "query" => r.kind # "withdraw", Ask(where, r)
  PROVE  RequestInv'
<1>1. AnswerInv'
  BY FreshTyped DEF RequestInv, AnswerInv, Answering, Ask, Waiting
<1>2. TellInv'
  BY DEF RequestInv, TellInv, Answering, Ask
<1> QED BY <1>1, <1>2 DEF RequestInv

LEMMA AskedKeeps == ASSUME RequestInv, Asked PROVE RequestInv'
<1>1. CASE AskWithdraw
  <2>1. PICK f \in Form :
          Ask("check", [kind |-> "withdraw", gzip |-> FALSE,
                        sum |-> f.sum, number |-> f.number])
    BY <1>1 DEF AskWithdraw
  <2>2. [kind |-> "withdraw", gzip |-> FALSE, sum |-> f.sum,
         number |-> f.number] \in Request
    BY FormAssumption DEF Request
  <2> QED BY <2>1, <2>2, AskKeeps
<1>2. \A g \in BOOLEAN, k \in {"balance", "list", "garbled", "other"} :
        /\ [NoRequest EXCEPT !.kind = k] \in Request
        /\ [NoRequest EXCEPT !.kind = k].kind # "withdraw"
        /\ [NoRequest EXCEPT !.kind = k, !.gzip = g] \in Request
        /\ [NoRequest EXCEPT !.kind = k, !.gzip = g].kind # "withdraw"
  BY NoRequestTyped DEF Request
<1>3. CASE AskBalance \/ AskGarbled
  BY <1>2, <1>3, AskKeeps DEF AskBalance, AskGarbled
<1>4. CASE AskList
  <2>1. PICK g \in BOOLEAN :
          Ask("query", [NoRequest EXCEPT !.kind = "list", !.gzip = g])
    BY <1>4 DEF AskList
  <2> QED BY <1>2, <2>1, AskKeeps
<1>5. CASE AskOther
  <2>1. PICK g \in BOOLEAN :
          Ask("query", [NoRequest EXCEPT !.kind = "other", !.gzip = g])
    BY <1>5 DEF AskOther
  <2> QED BY <1>2, <2>1, AskKeeps
<1> QED BY <1>1, <1>3, <1>4, <1>5 DEF Asked

(* A handler may write its answer whichever way.                           *)
LEMMA AnswerKeeps ==
  ASSUME RequestInv, at \in {"check", "store", "query"},
         NEW a, Sane(a), NEW amounts, Answer(a, amounts)
  PROVE  /\ AnswerInv' /\ at' \in Answering /\ wrote' = a
         /\ req'.kind = req.kind /\ req'.sum = req.sum /\ before' = before
<1> DEFINE l == [resp EXCEPT !.length = <<Size(a.body)>>]
<1>1. /\ a.body \in Seq(Nat) /\ a.body \in Seq(Nat \ {0}) /\ Size(a.body) \in Nat
      /\ <<>> \o a.body = a.body /\ Size(<<>>) = 0 /\ Threshold \in Nat
  BY SaneFields, ConcatEmptySeq, ThresholdAssumption DEF Pieces, Size
<1>2. req' \in Request /\ req'.gzip = req.gzip
      /\ req'.kind = req.kind /\ req'.sum = req.sum
  BY EmptySeq DEF Answer, RequestInv, AnswerInv, Request
<1>3. resp' \in Response /\ Untouched(resp')
      /\ resp'.length \in {NoLength, <<Size(a.body)>>}
  <2>1. resp \in Response /\ Untouched(resp) /\ resp.length = NoLength
    BY DEF RequestInv, AnswerInv
  <2>2. l \in Response /\ Untouched(l) /\ l.length = <<Size(a.body)>>
    <3>1. <<Size(a.body)>> \in Seq(Nat)
      BY <1>1
    <3>2. l \in Response /\ l.length = <<Size(a.body)>>
      BY <2>1, <3>1 DEF Response
    <3>3. Untouched(l)
      BY <2>1 DEF Response, Untouched
    <3> QED BY <3>2, <3>3
  <2> HIDE DEF l
  <2>3. resp' = l \/ resp' = resp
    BY DEF Answer, l
  <2> QED BY <2>1, <2>2, <2>3
<1>4. at' = "header" \/ (at' = "write" /\ ~a.explicit /\ a.status = 200)
  BY DEF Answer, Sane
<1>5. at' = "write" => Held(resp', a, a.body) /\ Direct(resp', a, a.body)
  <2> SUFFICES ASSUME at' = "write"
               PROVE  Held(resp', a, a.body) /\ Direct(resp', a, a.body)
    OBVIOUS
  <2>1. ~a.explicit /\ a.status = 200
    BY <1>4
  <2>2. Size(resp'.buffer) <= Threshold
    BY <1>1, <1>3 DEF Untouched
  <2>3. Held(resp', a, a.body)
    BY <1>1, <1>3, <2>1, <2>2 DEF Untouched, Held
  <2>4. Direct(resp', a, a.body)
    BY <1>1, <1>3, <2>1 DEF Untouched, Direct
  <2> QED BY <2>3, <2>4
<1>6. wrote' = a /\ todo' = a.body /\ late' = late /\ before' = before
  BY DEF Answer
<1>7. at' \in {"header", "write"}
  BY <1>4
<1>8. AnswerInv'
  BY <1>1, <1>2, <1>3, <1>5, <1>6, <1>7
     DEF RequestInv, AnswerInv, Answering
<1> QED BY <1>2, <1>6, <1>7, <1>8 DEF Answering

LEMMA Statuses ==
  /\ \A c \in {200, 400, 402, 422, 500, 204} : Sane(Status(c)) /\ Status(c).status = c
  /\ \A n \in Nat \ {0} : Sane(Bytes(n))
  /\ \A n \in Nat \ {0} : Sane([Bytes(n) EXCEPT !.status = 400])
<1>1. <<>> \in Pieces
  BY EmptySeq DEF Pieces
<1>2. ASSUME NEW n \in Nat \ {0} PROVE <<n>> \in Pieces
  BY <1>2 DEF Pieces
<1>4. ASSUME NEW c \in {200, 400, 402, 422, 500, 204}
      PROVE  Sane(Status(c)) /\ Status(c).status = c
  <2>1. /\ NoAnswer \in [status : Nat, explicit : BOOLEAN, announced : BOOLEAN,
                          body : Pieces]
        /\ NoAnswer.explicit
    BY <1>1 DEF NoAnswer
  <2>2. Status(c) \in Handler /\ Status(c).explicit /\ Status(c).status = c
    BY <2>1 DEF Handler, Status
  <2> QED BY <2>2 DEF Sane
<1>5. ASSUME NEW n \in Nat \ {0}
      PROVE  Bytes(n) \in Handler /\ Bytes(n).explicit
  <2>1. /\ NoAnswer \in [status : Nat, explicit : BOOLEAN, announced : BOOLEAN,
                          body : Pieces]
        /\ NoAnswer.explicit
    BY <1>1 DEF NoAnswer
  <2> DEFINE done == [NoAnswer EXCEPT !.status = 200]
  <2>2. /\ done \in [status : Nat, explicit : BOOLEAN, announced : BOOLEAN,
                     body : Pieces]
        /\ done.explicit /\ done.status = 200
    BY <2>1
  <2>3. Bytes(n) = [done EXCEPT !.body = <<n>>]
    BY <2>1 DEF Bytes
  <2> HIDE DEF done
  <2>4. <<n>> \in Pieces
    BY <1>2
  <2> QED BY <2>2, <2>3, <2>4 DEF Handler
<1>6. ASSUME NEW n \in Nat \ {0} PROVE Sane([Bytes(n) EXCEPT !.status = 400])
  <2> DEFINE h == Bytes(n)
  <2>1. h \in Handler /\ h.explicit
    BY <1>5
  <2> HIDE DEF h
  <2>2. Sane([h EXCEPT !.status = 400])
    BY <2>1 DEF Sane, Handler
  <2> QED BY <2>2 DEF h
<1>7. \A n \in Nat \ {0} : Sane(Bytes(n))
  BY <1>5 DEF Sane
<1> QED BY <1>4, <1>6, <1>7

LEMMA AnswerTells ==
  ASSUME RequestInv, at \in {"check", "store", "query"},
         NEW a, Sane(a), NEW amounts, Answer(a, amounts),
         balance' \in Nat, UNCHANGED earned, rows' \in Seq(Int),
         req.kind = "withdraw" =>
           /\ a.status = 200 =>
                /\ Len(rows') = before + 1
                /\ Precise(req.sum) => Nearest(rows'[before + 1], req.sum)
           /\ a.status \in {400, 402, 422} => Len(rows') = before
  PROVE  RequestInv'
<1>1. /\ AnswerInv' /\ at' \in Answering /\ wrote' = a
      /\ req'.kind = req.kind /\ req'.sum = req.sum /\ before' = before
  BY AnswerKeeps
<1>2. TellInv'
  BY <1>1 DEF RequestInv, TellInv, Answering
<1> QED BY <1>1, <1>2 DEF RequestInv

(* An answer that is no withdrawal's, or that changed nothing.             *)
LEMMA AnswerOnly ==
  ASSUME RequestInv, at \in {"check", "store", "query"},
         NEW a, Sane(a), NEW amounts, Answer(a, amounts), UNCHANGED db,
         at = "query" \/ a.status # 200
  PROVE  RequestInv'
<1>1. balance' \in Nat /\ rows' \in Seq(Int)
  BY DEF RequestInv, TellInv
<1>2. req.kind = "withdraw" =>
        /\ a.status # 200
        /\ a.status \in {400, 402, 422} => Len(rows') = before
  BY DEF RequestInv, TellInv
<1> QED BY <1>1, <1>2, AnswerTells

LEMMA StoreKeeps == ASSUME RequestInv, Store PROVE RequestInv'
<1>1. /\ at = "store" /\ rows \in Seq(Int) /\ balance \in Nat
      /\ before = Len(rows) /\ req.sum \in Decimal
  BY DEF Store, RequestInv, TellInv, AnswerInv, Request
<1>2. PICK k \in Decoded(req.sum) :
       \/ /\ balance - k > 0
          /\ Withdrawn(k) /\ Answer(Status(200), <<>>)
       \/ UNCHANGED db /\ Answer(Status(402), <<>>)
       \/ /\ UNCHANGED db \/ (balance - k > 0 /\ Withdrawn(k))
          /\ Answer(Status(500), <<>>)
  BY DEF Store
<1>3. k \in Int /\ (Precise(req.sum) => Nearest(k, req.sum))
  BY <1>1, SumsAreInt, SumsRoundToNearest
<1>4. ASSUME balance - k > 0, Withdrawn(k)
      PROVE  /\ balance' \in Nat /\ UNCHANGED earned /\ rows' \in Seq(Int)
             /\ Len(rows') = before + 1 /\ rows'[before + 1] = k
  BY <1>1, <1>3, <1>4, AppendProperties DEF Withdrawn
<1>5. CASE balance - k > 0 /\ Withdrawn(k) /\ Answer(Status(200), <<>>)
  <2>1. Sane(Status(200)) /\ Status(200).status = 200
    BY Statuses
  <2>2. /\ balance' \in Nat /\ UNCHANGED earned /\ rows' \in Seq(Int)
        /\ Len(rows') = before + 1
        /\ Precise(req.sum) => Nearest(rows'[before + 1], req.sum)
    BY <1>3, <1>4, <1>5
  <2> DEFINE a == Status(200)
  <2> HIDE DEF a
  <2>3. /\ a.status = 200 =>
             /\ Len(rows') = before + 1
             /\ Precise(req.sum) => Nearest(rows'[before + 1], req.sum)
        /\ a.status \in {400, 402, 422} => Len(rows') = before
    BY <2>1, <2>2 DEF a
  <2>4. Sane(a) /\ Answer(a, <<>>)
    BY <1>5, <2>1 DEF a
  <2> QED BY <1>1, <2>2, <2>3, <2>4, AnswerTells
<1>6. CASE UNCHANGED db /\ Answer(Status(402), <<>>)
  BY <1>1, <1>6, AnswerOnly, Statuses
<1>7. CASE UNCHANGED db /\ Answer(Status(500), <<>>)
  BY <1>1, <1>7, AnswerOnly, Statuses
<1>8. CASE balance - k > 0 /\ Withdrawn(k) /\ Answer(Status(500), <<>>)
  <2>1. Sane(Status(500)) /\ Status(500).status = 500
    BY Statuses
  <2> DEFINE a == Status(500)
  <2>2. balance' \in Nat /\ UNCHANGED earned /\ rows' \in Seq(Int)
    BY <1>4, <1>8
  <2>3. a.status # 200 /\ a.status \notin {400, 402, 422}
    BY <2>1
  <2> HIDE DEF a
  <2>4. Sane(a) /\ Answer(a, <<>>)
    BY <1>8, <2>1 DEF a
  <2> QED BY <1>1, <2>2, <2>3, <2>4, AnswerTells
<1> QED BY <1>2, <1>5, <1>6, <1>7, <1>8

LEMMA HandledKeeps == ASSUME RequestInv, Handled PROVE RequestInv'
<1>1. CASE BadRequest
  <2>1. PICK code \in {400, 500} : Answer(Status(code), <<>>)
    BY <1>1 DEF BadRequest
  <2> QED BY <1>1, <2>1, AnswerOnly, Statuses DEF BadRequest
<1>2. CASE CheckNumber
  <2>1. CASE Answer(Status(422), <<>>)
    BY <1>2, <2>1, AnswerOnly, Statuses DEF CheckNumber
  <2>2. CASE at' = "store" /\ UNCHANGED <<pvars, req, before, wrote, shown, todo,
                                          resp, late>>
    <3>1. at = "check" /\ UNCHANGED db
      BY <1>2 DEF CheckNumber
    <3>2. AnswerInv'
      BY <2>2, <3>1 DEF RequestInv, AnswerInv, Answering
    <3>3. TellInv'
      BY <2>2, <3>1 DEF RequestInv, TellInv, Answering
    <3> QED BY <3>2, <3>3 DEF RequestInv
  <2> QED BY <1>2, <2>1, <2>2 DEF CheckNumber
<1>3. CASE Store
  BY <1>3, StoreKeeps
<1>4. CASE ReadBalance
  BY <1>4, AnswerOnly, Statuses DEF ReadBalance
<1>5. CASE ReadList
  <2>1. /\ at = "query" /\ UNCHANGED db
        /\ Answer(Status(500), <<>>) \/ \E n \in 0..Len(rows) : Listed(n)
    BY <1>5 DEF ReadList, RequestInv, TellInv
  <2>2. CASE Answer(Status(500), <<>>)
    BY <2>1, <2>2, AnswerOnly, Statuses
  <2>3. ASSUME NEW n \in 0..Len(rows), Listed(n) PROVE RequestInv'
    <3>1. CASE Answer(Status(204), <<>>)
      BY <2>1, <3>1, AnswerOnly, Statuses
    <3>2. CASE n > 0 /\ \E amounts : Answer(Bytes(n), amounts)
      <4>1. n \in Nat \ {0}
        BY <3>2 DEF RequestInv, TellInv
      <4>2. Sane(Bytes(n))
        BY <4>1, Statuses
      <4> QED BY <2>1, <3>2, <4>2, AnswerOnly
    <3> QED BY <2>3, <3>1, <3>2 DEF Listed
  <2> QED BY <2>1, <2>2, <2>3
<1>6. CASE RefuseBody
  <2>1. Sane([Bytes(1) EXCEPT !.status = 400])
    BY Statuses
  <2> QED BY <1>6, <2>1, AnswerOnly DEF RefuseBody
<1>7. CASE HandleOther
  <2>1. PICK a \in Handling : Answer(a, <<>>)
    BY <1>7 DEF HandleOther
  <2>2. Sane(a)
    BY HandlingAssumption DEF Sane
  <2> QED BY <1>7, <2>1, <2>2, AnswerOnly DEF HandleOther
<1> QED BY <1>1, <1>2, <1>3, <1>4, <1>5, <1>6, <1>7 DEF Handled

(* A step that only takes the answer on its way.                           *)
LEMMA AdvanceTells ==
  ASSUME RequestInv, at \in Answering, at' \in Answering,
         NEW where, NEW r, Advance(where, r)
  PROVE  TellInv'
  BY DEF RequestInv, TellInv, Answering, Advance

LEMMA WriteHeaderKeeps == ASSUME RequestInv, WriteHeader PROVE RequestInv'
<1>1. /\ at = "header" /\ at' = "write" /\ Sane(wrote) /\ resp \in Response
      /\ Untouched(resp) /\ resp.length \in {NoLength, <<Size(wrote.body)>>}
      /\ todo = wrote.body
      /\ UNCHANGED <<todo, req, wrote, late, before, db>>
  BY DEF WriteHeader, Advance, RequestInv, AnswerInv, Answering
<1>2. CASE req.gzip
  <2>1. resp' = GWriteHeader(resp, wrote.status)
    BY <1>2 DEF WriteHeader, Advance, Compressing
  <2>2. resp' \in Response /\ (Held(resp', wrote, todo) \/ Zipping(resp', wrote, todo))
    BY <1>1, <2>1, HeaderHeld
  <2> QED BY <1>1, <1>2, <2>2, AdvanceTells
          DEF RequestInv, AnswerInv, Answering, WriteHeader
<1>3. CASE ~req.gzip
  <2>1. resp' = LogHeader(resp, wrote.status)
    BY <1>3 DEF WriteHeader, Advance, Compressing
  <2>2. resp' \in Response /\ Direct(resp', wrote, todo)
    BY <1>1, <2>1, HeaderDirect
  <2> QED BY <1>1, <1>3, <2>2, AdvanceTells
          DEF RequestInv, AnswerInv, Answering, WriteHeader
<1> QED BY <1>2, <1>3

LEMMA WriteKeeps == ASSUME RequestInv, Write PROVE RequestInv'
<1>1. /\ at = "write" /\ at' = "write" /\ Sane(wrote) /\ resp \in Response
      /\ todo \in Seq(Nat \ {0}) /\ todo # <<>> /\ todo' = Tail(todo)
      /\ UNCHANGED <<req, wrote, late, before, db>>
  BY DEF Write, Advance, RequestInv, AnswerInv, Answering
<1>2. todo' \in Seq(Nat \ {0}) /\ todo \in Seq(Nat)
  BY <1>1, HeadTailProperties, SeqMonotonic
<1>3. CASE req.gzip
  <2>1. resp' = GWrite(resp, Head(todo))
    BY <1>3 DEF Write, Advance, Compressing
  <2>2. Held(resp, wrote, todo) \/ Zipping(resp, wrote, todo)
    BY <1>1, <1>3 DEF RequestInv, AnswerInv
  <2>3. /\ resp' \in Response
        /\ Held(resp', wrote, Tail(todo)) \/ Zipping(resp', wrote, Tail(todo))
    BY <1>1, <1>2, <2>1, <2>2, WriteHeld, WriteZipping
  <2> QED BY <1>1, <1>2, <1>3, <2>3, AdvanceTells
          DEF RequestInv, AnswerInv, Answering, Write
<1>4. CASE ~req.gzip
  <2>1. resp' = NetWrite(resp, <<Head(todo)>>)
    BY <1>4 DEF Write, Advance, Compressing
  <2>2. Direct(resp, wrote, todo)
    BY <1>1, <1>4 DEF RequestInv, AnswerInv
  <2>3. resp' \in Response /\ Direct(resp', wrote, Tail(todo))
    BY <1>1, <1>2, <2>1, <2>2, WriteDirect
  <2> QED BY <1>1, <1>2, <1>4, <2>3, AdvanceTells
          DEF RequestInv, AnswerInv, Answering, Write
<1> QED BY <1>3, <1>4

LEMMA CloseKeeps == ASSUME RequestInv, Close PROVE RequestInv'
<1>1. /\ at = "write" /\ at' = "timeout" /\ Sane(wrote) /\ resp \in Response
      /\ todo = <<>> /\ req.gzip \in BOOLEAN
      /\ UNCHANGED <<todo, req, wrote, late, before, db>>
  BY DEF Close, Advance, RequestInv, AnswerInv, Answering, Request
<1>2. resp' \in Response /\ Done(resp', wrote, req.gzip)
  <2>1. CASE req.gzip = TRUE
    <3>1. resp' = GClose(resp)
      BY <2>1 DEF Close, Advance, Compressing
    <3>2. Held(resp, wrote, <<>>) \/ Zipping(resp, wrote, <<>>)
      BY <1>1, <2>1 DEF RequestInv, AnswerInv
    <3>3. resp' \in Response /\ Done(resp', wrote, TRUE)
      BY <1>1, <3>1, <3>2, CloseHeld, CloseZipping
    <3> QED BY <2>1, <3>3
  <2>2. CASE req.gzip = FALSE
    <3>1. resp' = resp
      BY <2>2 DEF Close, Advance, Compressing
    <3>2. Direct(resp, wrote, <<>>)
      BY <1>1, <2>2 DEF RequestInv, AnswerInv
    <3>3. Done(resp', wrote, FALSE)
      BY <1>1, <3>1, <3>2, CloseDirect
    <3> QED BY <1>1, <2>2, <3>1, <3>3
  <2> QED BY <1>1, <2>1, <2>2
<1> QED BY <1>1, <1>2, AdvanceTells DEF RequestInv, AnswerInv, Answering, Close

LEMMA TimeoutKeeps == ASSUME RequestInv, Timeout PROVE RequestInv'
<1>1. /\ at = "timeout" /\ at' = "log" /\ Sane(wrote) /\ resp \in Response
      /\ Done(resp, wrote, req.gzip)
      /\ UNCHANGED <<todo, req, wrote, late, before, db>>
  BY DEF Timeout, Advance, RequestInv, AnswerInv, Answering
<1>2. CASE "processing" \in late
  <2>1. "write" \in late
    BY <1>2 DEF RequestInv, AnswerInv
  <2>2. resp' = LogHeader(resp, 504)
    BY <1>2 DEF Timeout, Advance
  <2>3. resp' \in Response
    BY <1>1, <2>2, NetTyped
  <2> QED BY <1>1, <2>1, <2>3, AdvanceTells
          DEF RequestInv, AnswerInv, Answering, Timeout
<1>3. CASE "processing" \notin late
  <2>1. resp' = resp
    BY <1>3 DEF Timeout, Advance
  <2> QED BY <1>1, <2>1, AdvanceTells
          DEF RequestInv, AnswerInv, Answering, Timeout
<1> QED BY <1>2, <1>3

LEMMA LogKeeps == ASSUME RequestInv, Log PROVE RequestInv'
<1>1. /\ at = "log" /\ at' = "sent" /\ Sane(wrote) /\ resp \in Response
      /\ resp' = NetHeader(resp, 200)
      /\ UNCHANGED <<todo, req, wrote, late, before, db>>
  BY DEF Log, Advance, RequestInv, AnswerInv, Answering
<1>2. resp' \in Response
  BY <1>1, NetTyped
<1>3. "write" \notin late => /\ Done(resp', wrote, req.gzip)
                             /\ resp'.wire = wrote.status
  BY <1>1, DoneSent DEF RequestInv, AnswerInv
<1> QED BY <1>1, <1>2, <1>3, AdvanceTells
        DEF RequestInv, AnswerInv, Answering, Log

LEMMA TickKeeps == ASSUME RequestInv, Tick PROVE RequestInv'
<1>1. PICK t \in {"write", "processing"} \ late :
        /\ t = "processing" => "write" \in late
        /\ late' = late \cup {t}
  BY DEF Tick
<1>2. at # "idle" /\ UNCHANGED <<db, at, req, before, wrote, shown, todo, resp>>
  BY DEF Tick
<1>3. AnswerInv'
  BY <1>1, <1>2 DEF RequestInv, AnswerInv, Answering
<1>4. TellInv'
  BY <1>2 DEF RequestInv, TellInv, Answering
<1> QED BY <1>3, <1>4 DEF RequestInv

LEMMA RequestNext == RequestInv /\ [ServerNext]_sv => RequestInv'
<1> SUFFICES ASSUME RequestInv, [ServerNext]_sv PROVE RequestInv'
  OBVIOUS
<1>1. CASE Starting \/ LeaveFailed \/ DrainDone \/ Listening \/ Around
  BY <1>1, StutterKeeps DEF Starting, LeaveFailed, DrainDone, Listening, Around
<1>2. CASE DrainTimeout \/ Killed \/ Finish
  BY <1>2, ResetKeeps DEF DrainTimeout, Killed, Finish
<1>3. CASE Asked \/ Handled \/ Tick \/ Credit
  BY <1>3, AskedKeeps, HandledKeeps, TickKeeps, CreditKeeps
<1>4. CASE WriteHeader \/ Write \/ Close \/ Timeout \/ Log
  BY <1>4, WriteHeaderKeeps, WriteKeeps, CloseKeeps, TimeoutKeeps, LogKeeps
<1>5. CASE UNCHANGED sv
  BY <1>5, StutterKeeps
<1> QED BY <1>1, <1>2, <1>3, <1>4, <1>5 DEF ServerNext, Main, Ending, Sent

LEMMA RequestAlways == ServerSpec => []RequestInv
  BY RequestInit, RequestNext, PTL DEF ServerSpec

(* What the client reads is what the handler wrote, its status and its     *)
(* body, whatever way GzipWriter and net/http take it.                     *)
THEOREM FaithfulAnswers == ServerSpec => []ReadAsWritten
<1>1. RequestInv => ReadAsWritten
  BY DEF RequestInv, AnswerInv, ReadAsWritten, Received, Done
<1> QED BY <1>1, RequestAlways, PTL

(* GzipWriter compresses the bodies that are longer than the threshold, if *)
(* the client accepts gzip, and no other, whether or not the handler       *)
(* announced a length.                                                     *)
THEOREM OneThreshold == ServerSpec => []CompressedIfLong
<1>1. RequestInv => CompressedIfLong
  BY DEF RequestInv, AnswerInv, CompressedIfLong, Received, Done
<1> QED BY <1>1, RequestAlways, PTL

(* The middleware logs the status that the client got, where a handler     *)
(* sets one or a GzipWriter sets it in its place.                          *)
THEOREM TruthfulLog == ServerSpec => []LogTellsStatus
<1>1. RequestInv => LogTellsStatus
  BY DEF RequestInv, AnswerInv, LogTellsStatus, Received, Done
<1> QED BY <1>1, RequestAlways, PTL

(* What WithdrawBalance answers a client that gets the answer is what it   *)
(* did: 200 for one more row, of the sum typed, rounded to a kopeck, and   *)
(* 400, 402 or 422 for none.                                               *)
THEOREM TruthfulWithdrawals == ServerSpec => []ToldAsDone
<1>1. RequestInv => ToldAsDone
  <2>1. RequestInv /\ Received => resp.wire = wrote.status /\ at \in Answering
    BY DEF RequestInv, AnswerInv, Received, Answering
  <2> QED BY <2>1 DEF RequestInv, TellInv, ToldAsDone
<1> QED BY <1>1, RequestAlways, PTL

-----------------------------------------------------------------------------
(* What the tables hold, what was read from them and what passed the check *)
(* digit.  Between the reading and the answer the account may be credited, *)
(* for the first time: hence the 0.                                        *)

RowsShown(table, amounts) ==
  \/ amounts = <<>>
  \/ \E n \in 0..Len(table) : \E p \in [1..n -> DOMAIN table] :
       IsInjective(p) /\ amounts = [i \in 1..n |-> Encoded(table[p[i]])]

ShownInv ==
  /\ balance + SumFunction(rows) = earned
  /\ at \in {"check", "store"} => req.kind = "withdraw"
  /\ at = "store" => IsValidLuhn(req.number)
  /\ at \notin Answering => shown = <<>>
  /\ req.kind = "balance" /\ shown # <<>> =>
       \E c \in Nat : /\ shown = <<Encoded(c), Encoded(SumFunction(rows))>>
                     /\ c + SumFunction(rows) \in {0, earned}
  /\ req.kind = "list" => RowsShown(rows, shown)

LEMMA NothingShown == \A table : RowsShown(table, <<>>)
  BY DEF RowsShown

LEMMA ShownInit == ServerInit => ShownInv
  BY SumOfEmpty, NothingShown
     DEF ServerInit, Waiting, ShownInv, NoRequest

LEMMA ShownReset ==
  ASSUME ShownInv, Reset, UNCHANGED db PROVE ShownInv'
  BY DEF ShownInv, Reset, NoRequest, Answering

LEMMA ShownStays ==
  ASSUME ShownInv, UNCHANGED <<db, at, req, shown>> PROVE ShownInv'
  BY DEF ShownInv

LEMMA ShownCredit == ASSUME RequestInv, ShownInv, Credit PROVE ShownInv'
<1>1. /\ earned = 0 /\ rows \in Seq(Int) /\ balance \in Nat
      /\ UNCHANGED <<rows, at, req, shown>>
  BY DEF Credit, RequestInv, TellInv
<1>2. PICK d \in Granted : balance' = balance + Accrued(d) /\ earned' = Accrued(d)
  BY DEF Credit
<1>3. Accrued(d) \in Int /\ SumFunction(rows) \in Int
  BY <1>1, GrantedAssumption, SumsAreInt, SumAppended
<1>4. balance' + SumFunction(rows') = earned'
  <2>1. balance + SumFunction(rows) = 0
    BY <1>1 DEF ShownInv
  <2>2. rows' = rows
    BY <1>1
  <2> QED BY <1>1, <1>2, <1>3, <2>1, <2>2
<1>5. req'.kind = "balance" /\ shown' # <<>> =>
        \E c \in Nat : /\ shown' = <<Encoded(c), Encoded(SumFunction(rows'))>>
                      /\ c + SumFunction(rows') \in {0, earned'}
  BY <1>1 DEF ShownInv
<1> QED BY <1>1, <1>4, <1>5 DEF ShownInv

LEMMA ShownAsked == ASSUME RequestInv, ShownInv, Asked PROVE ShownInv'
<1>1. at = "idle" /\ UNCHANGED <<db, shown>>
  BY DEF Asked, AskWithdraw, AskBalance, AskList, AskGarbled, AskOther, Ask
<1>2. shown' = <<>>
  BY <1>1 DEF ShownInv, Answering
<1>3. \/ at' = "check" /\ req'.kind = "withdraw"
      \/ at' = "query"
  <2>1. CASE AskWithdraw
    BY <2>1 DEF AskWithdraw, Ask
  <2>2. CASE AskBalance \/ AskList \/ AskGarbled \/ AskOther
    BY <2>2 DEF AskBalance, AskList, AskGarbled, AskOther, Ask
  <2> QED BY <2>1, <2>2 DEF Asked
<1> QED BY <1>1, <1>2, <1>3, NothingShown DEF ShownInv

(* The amounts of an answer, if it has any, are those of the tables.       *)
LEMMA AnswerShows ==
  ASSUME ShownInv, RequestInv, NEW a, NEW amounts, Answer(a, amounts),
         balance' + SumFunction(rows') = earned',
         \/ amounts = <<>>
         \/ /\ req.kind = "balance" /\ UNCHANGED db
            /\ amounts = <<Encoded(balance), Encoded(SumFunction(rows))>>
         \/ req.kind = "list" /\ UNCHANGED db /\ RowsShown(rows, amounts)
  PROVE  ShownInv'
<1>1. /\ at' \in {"header", "write"} /\ shown' = amounts
      /\ req'.kind = req.kind
  BY DEF Answer, RequestInv, AnswerInv, Request
<1>2. balance \in Nat
  BY DEF RequestInv, TellInv
<1>3. req.kind = "balance" /\ amounts # <<>> =>
        \E c \in Nat : /\ amounts = <<Encoded(c), Encoded(SumFunction(rows'))>>
                      /\ c + SumFunction(rows') \in {0, earned'}
  BY <1>2
<1>4. req.kind = "list" => RowsShown(rows', amounts)
  BY NothingShown
<1> QED BY <1>1, <1>3, <1>4 DEF ShownInv, Answering

LEMMA ShownStore == ASSUME RequestInv, ShownInv, Store PROVE ShownInv'
<1>1. /\ rows \in Seq(Int) /\ balance \in Nat /\ earned \in Nat
      /\ req.sum \in Decimal /\ at = "store"
      /\ balance + SumFunction(rows) = earned
  BY DEF Store, RequestInv, TellInv, AnswerInv, Request, ShownInv
<1>2. PICK k \in Decoded(req.sum) :
        /\ Withdrawn(k) \/ UNCHANGED db
        /\ \E a : Answer(a, <<>>)
  BY DEF Store
<1>3. k \in Int
  BY <1>1, SumsAreInt
<1>4. CASE Withdrawn(k)
  <2>1. /\ SumFunction(rows) \in Int
        /\ SumFunction(Append(rows, k)) = SumFunction(rows) + k
    BY <1>1, <1>3, SumAppended
  <2>2. balance' = balance - k /\ rows' = Append(rows, k) /\ earned' = earned
    BY <1>4 DEF Withdrawn
  <2>3. balance' + SumFunction(rows') = earned'
    BY <1>1, <1>3, <2>1, <2>2
  <2> QED BY <1>2, <2>3, AnswerShows
<1>5. CASE UNCHANGED db
  <2>1. balance' + SumFunction(rows') = earned'
    BY <1>1, <1>5
  <2> QED BY <1>2, <2>1, AnswerShows
<1> QED BY <1>2, <1>4, <1>5

LEMMA ShownHandled == ASSUME RequestInv, ShownInv, Handled PROVE ShownInv'
<1>1. UNCHANGED db => balance' + SumFunction(rows') = earned'
  BY DEF ShownInv
<1>2. CASE BadRequest \/ RefuseBody \/ HandleOther
  <2>1. UNCHANGED db /\ \E a : Answer(a, <<>>)
    BY <1>2 DEF BadRequest, RefuseBody, HandleOther
  <2> QED BY <1>1, <2>1, AnswerShows
<1>3. CASE CheckNumber
  <2>1. CASE IsValidLuhn(req.number)
    <3>1. at = "check" /\ at' = "store" /\ UNCHANGED <<db, req, shown>>
      BY <1>3, <2>1 DEF CheckNumber
    <3>2. IsValidLuhn(req.number)'
      BY <2>1, <3>1
    <3> QED BY <3>1, <3>2 DEF ShownInv, Answering
  <2>2. CASE ~IsValidLuhn(req.number)
    <3>1. UNCHANGED db /\ \E a : Answer(a, <<>>)
      BY <1>3, <2>2 DEF CheckNumber
    <3> QED BY <1>1, <3>1, AnswerShows
  <2> QED BY <2>1, <2>2
<1>4. CASE Store
  BY <1>4, ShownStore
<1>5. CASE ReadBalance
  <2>1. /\ req.kind = "balance" /\ UNCHANGED db
        /\ \E a : \/ Answer(a, <<>>)
                 \/ Answer(a, <<Encoded(balance), Encoded(SumFunction(rows))>>)
    BY <1>5 DEF ReadBalance
  <2> QED BY <1>1, <2>1, AnswerShows
<1>6. CASE ReadList
  <2>1. /\ req.kind = "list" /\ UNCHANGED db
        /\ \/ \E a : Answer(a, <<>>)
           \/ \E n \in 0..Len(rows) : Listed(n)
    BY <1>6 DEF ReadList, RequestInv, TellInv
  <2>2. CASE \E a : Answer(a, <<>>)
    BY <1>1, <2>1, <2>2, AnswerShows
  <2>3. ASSUME NEW n \in 0..Len(rows), Listed(n) PROVE ShownInv'
    <3>1. CASE n = 0 /\ Answer(Status(204), <<>>)
      BY <2>2, <3>1
    <3>2. CASE \E p \in Picks(n) :
                 Answer(Bytes(n), [i \in 1..n |-> Encoded(rows[p[i]])])
      <4>1. PICK p \in Picks(n) :
              Answer(Bytes(n), [i \in 1..n |-> Encoded(rows[p[i]])])
        BY <3>2
      <4>2. RowsShown(rows, [i \in 1..n |-> Encoded(rows[p[i]])])
        BY <2>3, <4>1 DEF RowsShown, Picks
      <4> QED BY <1>1, <2>1, <4>1, <4>2, AnswerShows
    <3> QED BY <2>3, <3>1, <3>2 DEF Listed
  <2> QED BY <2>1, <2>2, <2>3
<1> QED BY <1>2, <1>3, <1>4, <1>5, <1>6 DEF Handled

LEMMA ShownSent ==
  ASSUME ShownInv, WriteHeader \/ Write \/ Close \/ Timeout \/ Log
  PROVE  ShownInv'
<1>1. at \in Answering /\ at' \in Answering /\ UNCHANGED <<db, req, shown>>
  BY DEF WriteHeader, Write, Close, Timeout, Log, Advance, Answering
<1> QED BY <1>1 DEF ShownInv, Answering

LEMMA ShownNext == RequestInv /\ ShownInv /\ [ServerNext]_sv => ShownInv'
<1> SUFFICES ASSUME RequestInv, ShownInv, [ServerNext]_sv PROVE ShownInv'
  OBVIOUS
<1>1. CASE Starting \/ LeaveFailed \/ DrainDone \/ Listening \/ Around
  BY <1>1, ShownStays DEF Starting, LeaveFailed, DrainDone, Listening, Around
<1>2. CASE DrainTimeout \/ Killed \/ Finish
  BY <1>2, ShownReset DEF DrainTimeout, Killed, Finish
<1>3. CASE Asked \/ Handled \/ Credit
  BY <1>3, ShownAsked, ShownHandled, ShownCredit
<1>4. CASE WriteHeader \/ Write \/ Close \/ Timeout \/ Log
  BY <1>4, ShownSent
<1>5. CASE Tick
  BY <1>5, ShownStays DEF Tick
<1>6. CASE UNCHANGED sv
  BY <1>6, ShownStays
<1> QED BY <1>1, <1>2, <1>3, <1>4, <1>5, <1>6 DEF ServerNext, Main, Ending, Sent

LEMMA ShownAlways == ServerSpec => [](RequestInv /\ ShownInv)
  BY RequestAlways, ShownInit, ShownNext, PTL DEF ServerSpec

(* The balance that GetLoyalityBalance shows and the withdrawals it adds   *)
(* up make what was earned, and the items of ListWithdrawals are rows of   *)
(* the table, to the kopeck, for any number of rows and any sums.          *)
THEOREM AmountsAddUp == ServerSpec => []ShownAddsUp
<1> SUFFICES ASSUME RequestInv, ShownInv PROVE ShownAddsUp
  BY ShownAlways, PTL
<1>1. rows \in Seq(Int) /\ SumFunction(rows) \in Int /\ earned \in Nat
  BY SumAppended DEF RequestInv, TellInv
<1>2. ASSUME req.kind = "balance", shown # <<>>
      PROVE  /\ Tenths(shown[1]) >= 0
             /\ Tenths(shown[2]) = 10 * SumFunction(rows)
             /\ Tenths(shown[1]) + Tenths(shown[2]) \in {0, 10 * earned}
  <2>1. PICK c \in Nat : /\ shown = <<Encoded(c), Encoded(SumFunction(rows))>>
                        /\ c + SumFunction(rows) \in {0, earned}
    BY <1>2 DEF ShownInv
  <2>2. shown[1] = Encoded(c) /\ shown[2] = Encoded(SumFunction(rows))
    BY <2>1
  <2>3. Tenths(shown[1]) = 10 * c /\ Tenths(shown[2]) = 10 * SumFunction(rows)
    BY <1>1, <2>2, AnswersReadBack, c \in Int, Zenon
  <2> QED BY <1>1, <2>1, <2>3
<1>3. ASSUME req.kind = "list", shown # <<>>
      PROVE  \E p \in Picks(Len(shown)) :
               \A i \in DOMAIN shown : Tenths(shown[i]) = 10 * rows[p[i]]
  <2>1. PICK n \in 0..Len(rows) : \E p \in Picks(n) :
          shown = [i \in 1..n |-> Encoded(rows[p[i]])]
    BY <1>3 DEF ShownInv, RowsShown, Picks
  <2> PICK p \in Picks(n) : shown = [i \in 1..n |-> Encoded(rows[p[i]])]
    BY <2>1
  <2>2. Len(shown) = n /\ DOMAIN shown = 1..n /\ n \in Nat
    BY <1>1, <2>1
  <2>3. \A i \in 1..n : rows[p[i]] \in Int /\ shown[i] = Encoded(rows[p[i]])
    BY <1>1, <2>1 DEF Picks
  <2> QED BY <2>1, <2>2, <2>3, AnswersReadBack
<1> QED BY <1>2, <1>3 DEF ShownAddsUp

(* A number that WithdrawBalance lets through to the table is none that a  *)
(* slip of the pen has made of another that it would let through: for      *)
(* numbers of any length, with separators or without.                      *)
THEOREM SlipsAreSeen == ServerSpec => []TyposRefused
<1>1. RequestInv /\ ShownInv => TyposRefused
  BY SlipsRefused DEF RequestInv, AnswerInv, Request, ShownInv, TyposRefused
<1> QED BY <1>1, ShownAlways, PTL

-----------------------------------------------------------------------------
(* The start.  The tables are there once the migration has been passed, if *)
(* it was not skipped, the port and the pool come after it, and without    *)
(* the tables there are no tasks.                                          *)
StartInv ==
  /\ main \in {"building", "starting", "waiting", "draining", "leaving"}
       => skipped \/ tables
  /\ filed \/ pool = "tasks" => tables
  /\ main \in {"off", "connecting", "resting", "migrating", "building"}
       => port = "closed" /\ pool = "off"
  /\ main = "off" => tries = 0
  /\ main = "connecting" => tries < maxConnectionRetries

LEMMA Retries ==
  /\ 0 \in 0..maxConnectionRetries /\ 0 < maxConnectionRetries
  /\ \A n \in 0..maxConnectionRetries :
       n < maxConnectionRetries => n + 1 \in 0..maxConnectionRetries
  BY DEF maxConnectionRetries

LEMMA EndKeeps ==
  ASSUME StartupTypeOK, End, tables' \in BOOLEAN, filed' \in BOOLEAN,
         filed' => tables'
  PROVE  StartupTypeOK' /\ StartInv'
  BY Retries, Zenon DEF End, StartupTypeOK, StartInv

LEMMA StartupNext ==
  StartupTypeOK /\ StartInv /\ [ServerNext]_sv => StartupTypeOK' /\ StartInv'
<1> SUFFICES ASSUME StartupTypeOK, StartInv, [ServerNext]_sv
             PROVE  StartupTypeOK' /\ StartInv'
  OBVIOUS
<1> USE DEF StartupTypeOK, StartInv
<1>1. CASE Ping \/ Rest
  <2>1. CASE End /\ UNCHANGED <<tables, filed>>
    BY <2>1, EndKeeps
  <2>2. CASE Rest /\ ~End
    BY <2>2 DEF Rest
  <2>3. CASE Ping
    BY <2>3, Retries, Zenon DEF Ping
  <2> QED BY <1>1, <2>1, <2>2, <2>3 DEF Rest
<1>2. CASE Migrate
  <2>1. tables' \in BOOLEAN /\ filed' \in BOOLEAN /\ (filed' => tables')
    BY <1>2, Zenon DEF Migrate
  <2>2. CASE End
    BY <2>1, <2>2, EndKeeps
  <2>3. CASE ~End
    BY <1>2, <2>3, Zenon DEF Migrate
  <2> QED BY <2>2, <2>3
<1>3. CASE Build
  <2>1. /\ main = "building" /\ main' = "starting"
        /\ pool' \in {"empty", "tasks"} /\ filed' \in BOOLEAN
        /\ filed' \/ pool' = "tasks" => filed
        /\ UNCHANGED <<tries, port, cancelled, quit, skipped, tables>>
    BY <1>3 DEF Build
  <2> QED BY <2>1, Zenon
<1>4. CASE Notify \/ StartupError \/ Drain
  <2>1. CASE Notify
    BY <2>1, Zenon DEF Notify
  <2>2. CASE StartupError
    BY <2>2, Zenon DEF StartupError
  <2>3. CASE Drain
    BY <2>3, Zenon DEF Drain
  <2> QED BY <1>4, <2>1, <2>2, <2>3
<1>5. CASE Leave \/ Kill
  <2>1. End /\ UNCHANGED tables /\ filed' \in {filed, filed /\ main # "building"}
    BY <1>5 DEF Leave, Kill
  <2>2. filed' \in BOOLEAN /\ (filed' => filed)
    BY <2>1, Zenon
  <2> QED BY <2>1, <2>2, EndKeeps
<1>6. CASE Launch \/ Signal
  <2>1. CASE Launch
    BY <2>1, Retries, Zenon DEF Launch
  <2>2. CASE Signal
    BY <2>2, Zenon DEF Signal
  <2> QED BY <1>6, <2>1, <2>2
<1>7. CASE QueueOrder \/ FinishTasks
  BY <1>7 DEF QueueOrder, FinishTasks
<1>8. CASE Dump
  <2>1. /\ pool' = "dumped" /\ filed' \in {FALSE, filed, pool = "tasks"}
        /\ UNCHANGED <<main, tries, port, cancelled, quit, skipped, tables>>
    BY <1>8 DEF Dump
  <2>3. filed' \in BOOLEAN /\ (filed' => filed \/ pool = "tasks")
    BY <2>1, Zenon
  <2>2. main \notin {"off", "connecting", "resting", "migrating", "building"}
    BY <1>8 DEF Dump
  <2> QED BY <2>1, <2>2, <2>3, Zenon
<1>9. CASE Listen
  BY <1>9 DEF Listen
<1>10. CASE UNCHANGED pvars
  BY <1>10
<1>11. CASE Asked
  BY <1>10, <1>11 DEF Asked, AskWithdraw, AskBalance, AskList, AskGarbled,
     AskOther, Ask
<1>12. CASE Handled
  BY <1>10, <1>12 DEF Handled, BadRequest, CheckNumber, Store, ReadBalance,
     ReadList, Listed, RefuseBody, HandleOther, Answer
<1>13. CASE Sent
  BY <1>10, <1>13 DEF Sent, WriteHeader, Write, Close, Timeout, Log, Finish,
     Advance
<1>14. CASE Tick \/ Credit
  BY <1>10, <1>14 DEF Tick, Credit
<1>15. CASE UNCHANGED sv
  BY <1>10, <1>15
<1>16. CASE Main \/ Listening \/ Around \/ Killed
  BY <1>1, <1>2, <1>3, <1>4, <1>5, <1>6, <1>7, <1>8, <1>9, <1>16
     DEF Main, Starting, Ending, DrainTimeout, DrainDone, LeaveFailed,
         Listening, Around, Killed
<1> QED BY <1>11, <1>12, <1>13, <1>14, <1>15, <1>16 DEF ServerNext

LEMMA StartupAlways == ServerSpec => [](StartupTypeOK /\ StartInv)
<1>1. ServerInit => StartupTypeOK /\ StartInv
  BY Retries, Zenon DEF ServerInit, StartupInit, StartupTypeOK, StartInv
<1> QED BY <1>1, StartupNext, PTL DEF ServerSpec

(* The types; a server that is idle remembers nothing of a request.        *)
THEOREM ServerTypes == ServerSpec => []ServerTypeOK
<1>1. RequestInv /\ StartupTypeOK => ServerTypeOK
  BY DEF RequestInv, AnswerInv, TellInv, ServerTypeOK, Answering, Request
<1> QED BY <1>1, RequestAlways, StartupAlways, PTL

(* databaseWorks comes before NewRouter and ListenAndServe: nothing is     *)
(* served before the migration was applied, unless there is none to apply; *)
(* and no task is queued or dumped before the tables exist.                *)
THEOREM TablesComeFirst == ServerSpec => []TablesFirst
<1>1. StartupTypeOK /\ StartInv => TablesFirst
  BY DEF StartupTypeOK, StartInv, TablesFirst
<1> QED BY <1>1, StartupAlways, PTL
-----------------------------------------------------------------------------
(* The pool in the server.                                                 *)

(* What leaves the process and its pool alone is not seen.                 *)
LEMMA StartupSeen ==
  ASSUME StartupTypeOK, StartInv, StartInv', [ServerNext]_sv
  PROVE  [Life!LifeNext]_(Life!life)
<1> USE DEF StartupTypeOK, StartInv, Phase, Stopped, BeforePool, Life!life,
            Life!LifeNext
<1>1. CASE Launch \/ Ping \/ Rest
  BY <1>1 DEF Launch, Ping, Rest, End
<1>2. CASE Migrate
  <2>1. CASE main' = "building"
    <3>1. /\ main = "migrating" /\ pool = "off" /\ pool' = "off"
          /\ filed' = filed /\ cancelled' = cancelled /\ cancelled \in BOOLEAN
      BY <1>2, <2>1, Zenon DEF Migrate, End
    <3> QED BY <2>1, <3>1 DEF Life!Begin
  <2>2. CASE main' # "building"
    <3>1. main = "migrating" /\ pool = "off" /\ End /\ filed' = filed
      BY <1>2, <2>2, Zenon DEF Migrate
    <3> QED BY <3>1 DEF End
  <2> QED BY <2>1, <2>2
<1>3. CASE Build
  BY <1>3 DEF Build, Life!Restore
<1>4. CASE Listen \/ Notify \/ Drain
  BY <1>4 DEF Listen, Notify, Drain
<1>5. CASE StartupError \/ Signal
  <2>1. /\ UNCHANGED <<Phase, pool, filed>> /\ cancelled' = TRUE
    BY <1>5 DEF StartupError, Signal
  <2>2. Phase # "down" => Stopped' = TRUE
    BY <2>1
  <2>3. Phase = "down" => UNCHANGED Stopped
    BY <2>1
  <2> QED BY <2>1, <2>2, <2>3 DEF Life!Stop
<1>6. CASE Leave \/ Kill
  <2>1. /\ main # "off" /\ main' = "off" /\ cancelled' = FALSE /\ pool' = "off"
        /\ filed' \in {filed, filed /\ main # "building"}
    BY <1>6 DEF Leave, Kill, End
  <2>2. CASE BeforePool
    <3>1. pool = "off" /\ filed' = filed
      BY <2>1, <2>2
    <3> QED BY <2>1, <2>2, <3>1
  <2>3. CASE ~BeforePool
    BY <2>1, <2>3 DEF Life!End
  <2> QED BY <2>2, <2>3
<1>7. CASE QueueOrder \/ FinishTasks
  BY <1>7 DEF QueueOrder, FinishTasks, Life!Fill, Life!Empty
<1>8. CASE Dump
  <2>1. ~BeforePool /\ Stopped /\ UNCHANGED <<Phase, Stopped>>
    BY <1>8 DEF Dump
  <2>2. filed' \in {FALSE, filed, pool = "tasks"}
    BY <1>8 DEF Dump
  <2> QED BY <1>8, <2>1, <2>2 DEF Dump, Life!Dump
<1>9. CASE UNCHANGED pvars
  BY <1>9
<1>10. CASE Asked
  BY <1>9, <1>10 DEF Asked, AskWithdraw, AskBalance, AskList, AskGarbled,
     AskOther, Ask
<1>11. CASE Handled
  BY <1>9, <1>11 DEF Handled, BadRequest, CheckNumber, Store, ReadBalance,
     ReadList, Listed, RefuseBody, HandleOther, Answer
<1>12. CASE Sent
  BY <1>9, <1>12 DEF Sent, WriteHeader, Write, Close, Timeout, Log, Finish,
     Advance
<1>13. CASE Tick \/ Credit
  BY <1>9, <1>13 DEF Tick, Credit
<1>14. CASE UNCHANGED sv
  BY <1>9, <1>14
<1>15. CASE Main \/ Listening \/ Around \/ Killed
  BY <1>1, <1>2, <1>3, <1>4, <1>5, <1>6, <1>7, <1>8, <1>15
     DEF Main, Starting, Ending, DrainTimeout, DrainDone, LeaveFailed,
         Listening, Around, Killed
<1> QED BY <1>10, <1>11, <1>12, <1>13, <1>14, <1>15 DEF ServerNext

(* What the server assumes of its pool is what PoolLife says, and so what  *)
(* the pool was proved to do: the dump is queued when it has left the      *)
(* file, and written after a cancellation only, over any number of starts. *)
THEOREM ServerUsesPool == ServerSpec => ServerPoolSpec
<1>1. ServerInit => Life!LifeInit
  BY DEF ServerInit, StartupInit, Life!LifeInit, Phase, Stopped, BeforePool
<1> QED BY <1>1, StartupSeen, StartupAlways, PTL
        DEF ServerSpec, ServerPoolSpec, Life!LifeSpec
=============================================================================
