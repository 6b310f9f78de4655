---------------------------- MODULE OutputProofs ----------------------------
(***************************************************************************)
(* Proofs about the output of commands, for every set of jobs, pipes and   *)
(* capacities and every text: wherever reads cut it, a line is shipped     *)
(* once, no piece vanishes unaccounted, and numbers follow the text.       *)
(***************************************************************************)
EXTENDS ExecutionProofs, SequenceTheorems, WellFoundedInduction

-----------------------------------------------------------------------------
(* About chunks of text.                                                   *)

(* A chunk that holds ends of lines has a first one.                       *)
LEMMA HasFirstEnd ==
    ASSUME NEW d \in Seq(Nat), EndsLine(d) # {}
    PROVE  \E c \in EndsLine(d) : \A m \in EndsLine(d) : c <= m
<1>1. EndsLine(d) \subseteq Nat
  BY LenProperties DEF EndsLine
<1>2. PICK c \in EndsLine(d) : \A m \in EndsLine(d) : ~(<<m, c>> \in OpToRel(<, Nat))
  BY <1>1, WFMin, NatLessThanWellFounded
<1>3. ASSUME NEW m \in EndsLine(d) PROVE c <= m
  <2>1. c \in Nat /\ m \in Nat
    BY <1>1
  <2>2. <<m, c>> \in Nat \X Nat /\ <<m, c>>[1] = m /\ <<m, c>>[2] = c
    BY <2>1
  <2> QED
    BY <1>2, <2>1, <2>2 DEF OpToRel
<1> QED
  BY <1>3

(* What Settled makes of a reader and the rest of its chunk.               *)
LEMMA SettledReader ==
    ASSUME NEW rd \in Reader, NEW d \in Seq(Nat)
    PROVE  /\ Settled(rd, d) \in Reader
           /\ Settled(rd, d).pc = rd.pc /\ Settled(rd, d).got = rd.got
           /\ \/ /\ EndsLine(d) # {} /\ Settled(rd, d).data = d
                 /\ Settled(rd, d).incomplete = rd.incomplete
              \/ /\ EndsLine(d) = {} /\ d = <<>> /\ Settled(rd, d).data = <<>>
                 /\ Settled(rd, d).incomplete = rd.incomplete
              \/ /\ EndsLine(d) = {} /\ d # <<>> /\ Settled(rd, d).data = <<>>
                 /\ Settled(rd, d).incomplete = d
<1>0. d # <<>> \/ EndsLine(d) = {}
  BY EmptySeq DEF EndsLine
<1>1. CASE EndsLine(d) # {}
  <2>1. Settled(rd, d) = [rd EXCEPT !.data = d]
    BY <1>1 DEF Settled
  <2> QED
    BY <1>1, <2>1 DEF Reader
<1>2. CASE EndsLine(d) = {} /\ d = <<>>
  <2>1. Settled(rd, d) = [rd EXCEPT !.data = <<>>]
    BY <1>2 DEF Settled
  <2> QED
    BY <1>2, <2>1, EmptySeq DEF Reader
<1>3. CASE EndsLine(d) = {} /\ d # <<>>
  <2>1. Settled(rd, d) = [rd EXCEPT !.data = <<>>, !.incomplete = d]
    BY <1>3 DEF Settled
  <2> QED
    BY <1>3, <2>1, EmptySeq DEF Reader
<1> QED
  BY <1>0, <1>1, <1>2, <1>3

(* The pieces a read appends to "incomplete".                              *)
LEMMA ReadPieces ==
    ASSUME NEW p \in Seq(Nat), NEW g \in Nat, NEW n \in Nat, n > g
    PROVE  LET d == p \o [i \in 1 .. n - g |-> g + i] IN
           /\ d \in Seq(Nat) /\ Len(d) = Len(p) + (n - g) /\ d # <<>>
           /\ \A i \in 1 .. Len(p) : d[i] = p[i]
           /\ \A i \in Len(p) + 1 .. Len(d) : d[i] = g + (i - Len(p))
<1> DEFINE q == [i \in 1 .. n - g |-> g + i]
<1>1. q \in [1 .. n - g -> Nat] /\ n - g \in Nat
  OBVIOUS
<1>2. q \in Seq(Nat)
  BY <1>1, SeqDef
<1>3. Len(q) = n - g
  BY <1>1, <1>2, LenProperties
<1>4. \A i \in 1 .. n - g : q[i] = g + i
  OBVIOUS
<1> HIDE DEF q
<1>5. Len(p) \in Nat
  BY LenProperties
<1>6. p \o q \in Seq(Nat) /\ Len(p \o q) = Len(p) + (n - g)
  BY <1>2, <1>3, ConcatProperties
<1>7. \A i \in 1 .. Len(p) + (n - g) : (p \o q)[i] = IF i <= Len(p) THEN p[i] ELSE q[i - Len(p)]
  BY <1>2, <1>3, ConcatProperties
<1>8. p \o q # <<>>
  BY <1>5, <1>6, EmptySeq
<1>9. \A i \in Len(p) + 1 .. Len(p) + (n - g) : i - Len(p) \in 1 .. n - g /\ ~(i <= Len(p))
  BY <1>5
<1> QED
  BY <1>4, <1>5, <1>6, <1>7, <1>8, <1>9 DEF q
-----------------------------------------------------------------------------
(* Types.                                                                  *)

(* The reader of a pipe becomes r; the line o joins a channel.             *)
Becomes(j, s, r) == reader' = [reader EXCEPT ![j][s] = r]
Appends(j, o)    == logCh' = [logCh EXCEPT ![j] = Append(@, o)]

(* One reader changes.                                                     *)
LEMMA ReaderUpdate ==
    ASSUME TypeOK, NEW j \in Jobs, NEW s \in Sources, NEW r \in Reader,
           Becomes(j, s, r)
    PROVE  /\ reader' \in [Jobs -> [Sources -> Reader]]
           /\ reader'[j][s] = r
           /\ \A l \in Jobs : \A t \in Sources : l # j \/ t # s => reader'[l][t] = reader[l][t]
  BY DEF TypeOK, Becomes

(* A line joins a channel.                                                 *)
LEMMA LogUpdate ==
    ASSUME TypeOK, NEW j \in Jobs, NEW o \in Output,
           Appends(j, o)
    PROVE  /\ logCh' \in [Jobs -> Seq(Output)]
           /\ logCh'[j] = Append(logCh[j], o)
           /\ \A l \in Jobs \ {j} : logCh'[l] = logCh[l]
<1>1. logCh[j] \in Seq(Output)
  BY DEF TypeOK
<1>2. Append(logCh[j], o) \in Seq(Output)
  BY <1>1, AppendProperties
<1> QED
  BY <1>2 DEF TypeOK, Appends

(* The initial state.                                                      *)
LEMMA TypesInit == Init => TypeOK
<1> SUFFICES ASSUME Init PROVE TypeOK
  OBVIOUS
<1>1. [pc |-> "off", got |-> 0, data |-> <<>>, incomplete |-> <<>>] \in Reader
  BY EmptySeq DEF Reader
<1>2. <<>> \in Seq(Output)
  BY EmptySeq
<1> QED
  BY <1>1, <1>2 DEF Init, TypeOK, Progress

(* The main loop touches readers only where it starts them, and numbers    *)
(* only where it accepts a command.                                        *)
LEMMA MainMoves ==
    ASSUME NEW j \in Jobs, MainStep(j)
    PROVE  /\ UNCHANGED <<cmd, wrote, logCh, buffer, batches, rows, lost, reported, alive>>
           /\ ExecuteStart(j) \/ UNCHANGED reader
           /\ Handle(j) \/ UNCHANGED logSeq
<1>1. CASE Handle(j)
  BY <1>1 DEF Handle, streaming, shipping
<1>2. CASE ExecuteTest(j) \/ ExecuteInsert(j)
  BY <1>2 DEF ExecuteTest, ExecuteInsert, streaming, shipping
<1>3. CASE ExecuteStart(j)
  BY <1>3 DEF ExecuteStart, shipping
<1>4. CASE StartFails(j) \/ Refuse(j)
  BY <1>4 DEF StartFails, Refuse, streaming, shipping
<1> QED
  BY <1>1, <1>2, <1>3, <1>4 DEF MainStep

(* A job that has no process yet goes on, or is refused.                   *)
LEMMA UnbegunTypes ==
    ASSUME TypeOK, NEW j \in Jobs, NEW p \in Unbegun, proc[j] \in Unbegun,
           proc' \in {proc, [proc EXCEPT ![j] = p]}, main' \in Jobs \cup {NoJob},
           active' \subseteq Commands, logSeq' \in [Commands -> Nat],
           UNCHANGED <<cmd, limit, wrote, reader, logCh, buffer, batches, rows, lost,
                       reported, alive>>
    PROVE  TypeOK'
<1>1. /\ proc' \in [Jobs -> Progress]
      /\ \A l \in Jobs : proc'[l] \in Unbegun <=> proc[l] \in Unbegun
  BY DEF TypeOK, Progress, Unbegun
<1> QED
  BY <1>1 DEF TypeOK, Unbegun

(* The main loop.                                                          *)
LEMMA MainTypes ==
    ASSUME TypeOK, NEW j \in Jobs, MainStep(j)
    PROVE  TypeOK'
<1>1. CASE Handle(j)
  <2>1. /\ main' \in Jobs \cup {NoJob} /\ logSeq' \in [Commands -> Nat]
        /\ proc[j] \in Unbegun /\ proc' \in {proc, [proc EXCEPT ![j] = "refused"]}
    BY <1>1 DEF Handle, TypeOK, Unbegun
  <2>2. active' \subseteq Commands /\ "refused" \in Unbegun
    BY <1>1 DEF Handle, TypeOK, Unbegun
  <2> QED
    BY <1>1, <2>1, <2>2, UnbegunTypes DEF Handle, streaming, shipping
<1>2. CASE ExecuteTest(j) \/ ExecuteInsert(j)
  <2>1. /\ proc[j] \in Unbegun /\ main' \in Jobs \cup {NoJob}
        /\ \E p \in Unbegun : proc' = [proc EXCEPT ![j] = p]
    BY <1>2 DEF ExecuteTest, ExecuteInsert, TypeOK, Unbegun
  <2>2. active' \subseteq Commands /\ logSeq' \in [Commands -> Nat]
    BY <1>2 DEF ExecuteTest, ExecuteInsert, TypeOK
  <2> QED
    BY <1>2, <2>1, <2>2, UnbegunTypes DEF ExecuteTest, ExecuteInsert, streaming, shipping
<1>3. CASE ExecuteStart(j)
  <2>1. proc[j] = "listed"
    BY <1>3 DEF ExecuteStart
  <2>2. /\ reader' \in [Jobs -> [Sources -> Reader]]
        /\ \A s \in Sources : reader'[j][s].pc = "reading"
        /\ \A l \in Jobs \ {j} : reader'[l] = reader[l]
    <3>1. \A r \in Reader : [r EXCEPT !.pc = "reading"] \in Reader
      BY DEF Reader
    <3>2. \A r \in Reader : [r EXCEPT !.pc = "reading"].pc = "reading"
      BY DEF Reader
    <3>3. reader' = [reader EXCEPT ![j] = [s \in Sources |-> [reader[j][s] EXCEPT !.pc = "reading"]]]
      BY <1>3 DEF ExecuteStart
    <3> QED
      BY <3>1, <3>2, <3>3 DEF TypeOK
  <2>3. proc' \in [Jobs -> Progress] /\ active' \subseteq Commands
    BY <1>3 DEF ExecuteStart, TypeOK, Progress
  <2>4. \A l \in Jobs : \A s \in Sources :
          reader'[l][s].pc = "off" <=> proc'[l] \in Unbegun
    BY <1>3, <2>1, <2>2 DEF ExecuteStart, TypeOK, Unbegun
  <2> QED
    BY <1>3, <2>2, <2>3, <2>4 DEF ExecuteStart, TypeOK, shipping, Unbegun
<1>4. CASE StartFails(j) \/ Refuse(j)
  <2>1. /\ proc[j] \in Unbegun /\ main' = NoJob /\ "refused" \in Unbegun
        /\ proc' = [proc EXCEPT ![j] = "refused"]
    BY <1>4 DEF StartFails, Refuse, Unbegun
  <2>2. active' \subseteq Commands /\ logSeq' \in [Commands -> Nat]
    BY <1>4 DEF StartFails, Refuse, TypeOK
  <2> QED
    BY <1>4, <2>1, <2>2, UnbegunTypes DEF StartFails, Refuse, streaming, shipping
<1> QED
  BY <1>1, <1>2, <1>3, <1>4 DEF MainStep

(* The waiting goroutine and the report.                                   *)
LEMMA WaitTypes ==
    ASSUME TypeOK, NEW j \in Jobs, WaitStep(j)
    PROVE  TypeOK'
<1>1. ASSUME NEW from, NEW to \in Progress \ Unbegun, Advance(j, from, to),
             from \notin Unbegun, active' \subseteq active
      PROVE  TypeOK'
  BY <1>1 DEF Advance, TypeOK, streaming, shipping, Unbegun
<1>2. CASE Exit(j)
  BY <1>1, <1>2 DEF Exit, Progress, Unbegun
<1>3. CASE Wait(j)
  BY <1>1, <1>3 DEF Wait, Progress, Unbegun
<1>4. CASE Forget(j)
  BY <1>1, <1>4 DEF Forget, Progress, Unbegun
<1>5. CASE CloseLog(j)
  BY <1>1, <1>5 DEF CloseLog, Progress, Unbegun
<1>6. CASE HandleResult(j)
  BY <1>6 DEF HandleResult, TypeOK, streaming, shipping
<1> QED
  BY <1>2, <1>3, <1>4, <1>5, <1>6 DEF WaitStep

(* What a reader does to itself, the channel and the losses.               *)
LEMMA ReaderTypes ==
    ASSUME TypeOK, NEW j \in Jobs, NEW s \in Sources, NEW r \in Reader,
           Becomes(j, s, r),
           r.pc # "off", reader[j][s].pc # "off",
           logCh' \in [Jobs -> Seq(Output)], lost' \subseteq Jobs \X Sources \X Nat,
           UNCHANGED <<cmd, limit, main, proc, active, wrote, logSeq, buffer, batches, rows,
                       reported, alive>>
    PROVE  TypeOK'
<1>1. /\ reader' \in [Jobs -> [Sources -> Reader]]
      /\ reader'[j][s] = r
      /\ \A l \in Jobs : \A t \in Sources : l # j \/ t # s => reader'[l][t] = reader[l][t]
  BY ReaderUpdate
<1>2. ASSUME NEW l \in Jobs, NEW t \in Sources
      PROVE  reader'[l][t].pc = "off" <=> reader[l][t].pc = "off"
  <2>1. CASE l = j /\ t = s
    BY <1>1, <2>1
  <2>2. CASE l # j \/ t # s
    BY <1>1, <2>2
  <2> QED
    BY <2>1, <2>2
<1>3. \A l \in Jobs : \A t \in Sources : reader'[l][t].pc = "off" <=> proc'[l] \in Unbegun
  BY <1>2 DEF TypeOK, Unbegun
<1> QED
  BY <1>1, <1>3 DEF TypeOK, Unbegun

LEMMA PiecesType ==
    ASSUME NEW j \in Jobs, NEW s \in Sources, NEW text \in Seq(Nat)
    PROVE  Pieces(j, s, text) \subseteq Jobs \X Sources \X Nat
<1>1. \A n \in DOMAIN text : text[n] \in Nat
  BY LenProperties
<1> QED
  BY <1>1 DEF Pieces

(* A read, with the chunk d it makes and the reader r it leaves.           *)
LEMMA PipeType == TypeOK => \A j \in Jobs : \A s \in Sources :
                     reader[j][s] \in Reader /\ wrote[j][s] \in Nat
  BY DEF TypeOK

LEMMA ReadEffect ==
    ASSUME TypeOK, NEW j \in Jobs, NEW s \in Sources, Read(j, s)
    PROVE  LET rd == reader[j][s] IN
           \E n \in Nat, d \in Seq(Nat), r \in Reader :
              /\ n > rd.got /\ n <= wrote[j][s]
              /\ d = rd.incomplete \o [i \in 1 .. n - rd.got |-> rd.got + i]
              /\ r = Settled([rd EXCEPT !.got = n], d)
              /\ Becomes(j, s, r)
              /\ r.pc = "reading" /\ r.got = n
<1> DEFINE rd == reader[j][s]
<1>1. rd \in Reader /\ wrote[j][s] \in Nat
  BY PipeType
<1>2. rd.got \in Nat /\ rd.incomplete \in Seq(Nat) /\ rd.pc = "reading"
  <2>1. \A r \in Reader : r.got \in Nat /\ r.incomplete \in Seq(Nat)
    BY DEF Reader
  <2> QED
    BY <1>1, <2>1 DEF Read
<1>3. PICK n \in rd.got + 1 .. wrote[j][s] :
         reader' = [reader EXCEPT ![j][s] =
             Settled([rd EXCEPT !.got = n],
                     rd.incomplete \o [i \in 1 .. n - rd.got |-> rd.got + i])]
  BY DEF Read
<1> DEFINE d == rd.incomplete \o [i \in 1 .. n - rd.got |-> rd.got + i]
           r == Settled([rd EXCEPT !.got = n], d)
<1>4. n \in Nat /\ n > rd.got /\ n <= wrote[j][s]
  BY <1>1, <1>2
<1>5. d \in Seq(Nat)
  BY <1>2, <1>4, ReadPieces
<1>6. /\ [rd EXCEPT !.got = n] \in Reader
      /\ [rd EXCEPT !.got = n].pc = "reading" /\ [rd EXCEPT !.got = n].got = n
  <2> HIDE DEF rd
  <2> QED
    BY <1>1, <1>2, <1>4 DEF Reader
<1>7. r \in Reader /\ r.pc = "reading" /\ r.got = n
  <2> HIDE DEF d
  <2> QED
    BY <1>5, <1>6, SettledReader
<1> HIDE DEF d, r
<1>8. Becomes(j, s, r)
  BY <1>3 DEF d, r, Becomes
<1> QED
  BY <1>4, <1>5, <1>7, <1>8 DEF d, r

(* A chunk d cut after its c-th piece.                                     *)
LEMMA CutPieces ==
    ASSUME NEW d \in Seq(Nat), NEW c \in 1 .. Len(d)
    PROVE  LET line == SubSeq(d, 1, c)
               rest == SubSeq(d, c + 1, Len(d)) IN
           /\ line \in Seq(Nat) /\ Len(line) = c /\ line # <<>>
           /\ rest \in Seq(Nat) /\ Len(rest) = Len(d) - c
           /\ \A i \in 1 .. c : line[i] = d[i]
           /\ \A i \in 1 .. Len(d) - c : rest[i] = d[c + i]
<1>0. Len(d) \in Nat /\ \A i \in 1 .. Len(d) : d[i] \in Nat
  BY LenProperties
<1>1. \A i \in 1 .. c : d[i] \in Nat
  BY <1>0
<1>2. \A i \in c + 1 .. Len(d) : d[i] \in Nat
  BY <1>0
<1>3. /\ SubSeq(d, 1, c) \in Seq(Nat) /\ Len(SubSeq(d, 1, c)) = c
      /\ \A i \in 1 .. c : SubSeq(d, 1, c)[i] = d[i]
  <2>1. /\ SubSeq(d, 1, c) \in Seq(Nat) 
        /\ Len(SubSeq(d, 1, c)) = IF 1 <= c THEN c - 1 + 1 ELSE 0
        /\ \A i \in 1 .. c - 1 + 1 : SubSeq(d, 1, c)[i] = d[1 + i - 1]
    BY <1>1, SubSeqProperties, 1 \in Int, c \in Int
  <2>2. c - 1 + 1 = c /\ \A i \in Int : 1 + i - 1 = i
    OBVIOUS
  <2> QED
    BY <2>1, <2>2
<1>4. /\ SubSeq(d, c + 1, Len(d)) \in Seq(Nat) /\ Len(SubSeq(d, c + 1, Len(d))) = Len(d) - c
      /\ \A i \in 1 .. Len(d) - c : SubSeq(d, c + 1, Len(d))[i] = d[c + i]
  <2>1. /\ SubSeq(d, c + 1, Len(d)) \in Seq(Nat)
        /\ Len(SubSeq(d, c + 1, Len(d)))
             = IF c + 1 <= Len(d) THEN Len(d) - (c + 1) + 1 ELSE 0
        /\ \A i \in 1 .. Len(d) - (c + 1) + 1 :
              SubSeq(d, c + 1, Len(d))[i] = d[c + 1 + i - 1]
    <3>1. c + 1 \in Int /\ Len(d) \in Int
      BY <1>0
    <3> QED
      BY <1>2, <3>1, SubSeqProperties
  <2>2. c \in Nat /\ Len(d) \in Nat
    BY <1>0
  <2>3. Len(d) - (c + 1) + 1 = Len(d) - c
    BY <2>2
  <2>4. \A i \in Int : c + 1 + i - 1 = c + i
    BY <2>2
  <2>5. (c + 1 <= Len(d)) \/ Len(d) - c = 0
    BY <1>0, <2>2
  <2>6. Len(SubSeq(d, c + 1, Len(d))) = Len(d) - c
    BY <2>1, <2>3, <2>5
  <2>7. ASSUME NEW i \in 1 .. Len(d) - c
        PROVE  SubSeq(d, c + 1, Len(d))[i] = d[c + i]
    <3>1. i \in 1 .. Len(d) - (c + 1) + 1 /\ i \in Int
      BY <2>2, <2>3
    <3>2. SubSeq(d, c + 1, Len(d))[i] = d[c + 1 + i - 1]
      BY <2>1, <3>1
    <3> QED
      BY <2>4, <3>1, <3>2
  <2> QED
    BY <2>1, <2>6, <2>7
<1>5. SubSeq(d, 1, c) # <<>>
  BY <1>3, EmptySeq
<1> QED
  BY <1>3, <1>4, <1>5

(* The next line is cut off the chunk after the piece c and sent, dropped, *)
(* or passed over.                                                         *)
TakeLine(j, s) == SkipBlank(j, s) \/ SendLine(j, s)

LEMMA TakeLineEffect ==
    ASSUME TypeOK, ReadersOK, NEW j \in Jobs, NEW s \in Sources, TakeLine(j, s)
    PROVE  LET rd == reader[j][s] IN
           \E c \in EndsLine(rd.data), r \in Reader, o \in Output :
              /\ o = [job |-> j, source |-> s, text |-> SubSeq(rd.data, 1, c)]
              /\ r = Settled(rd, SubSeq(rd.data, c + 1, Len(rd.data)))
              /\ Becomes(j, s, r)
              /\ r.pc = "reading" /\ r.got = rd.got
              /\ \/ Appends(j, o) /\ UNCHANGED lost
                 \/ lost' = lost \cup Pieces(j, s, o.text) /\ UNCHANGED logCh
                 \/ Blank(o.text) /\ UNCHANGED <<logCh, lost>>
<1> DEFINE rd == reader[j][s]
           c == FirstEnd(rd.data)
           line == SubSeq(rd.data, 1, c)
           rest == SubSeq(rd.data, c + 1, Len(rd.data))
           r == Settled(rd, rest)
           o == [job |-> j, source |-> s, text |-> line]
<1>1. rd \in Reader /\ rd.data \in Seq(Nat)
  <2>1. \A x \in Reader : x.data \in Seq(Nat)
    BY DEF Reader
  <2> QED
    BY <2>1, PipeType
<1>2. rd.pc = "reading" /\ rd.data # <<>>
  BY DEF TakeLine, SkipBlank, SendLine, HasLine
<1>3. c \in EndsLine(rd.data)
  BY <1>1, <1>2, HasFirstEnd DEF ReadersOK, ReaderOK, FirstEnd
<1>4. Becomes(j, s, r)
  BY DEF TakeLine, SkipBlank, SendLine, Becomes, AfterLine
<1>5. \/ Appends(j, o) /\ UNCHANGED lost
      \/ lost' = lost \cup Pieces(j, s, line) /\ UNCHANGED logCh
      \/ Blank(line) /\ UNCHANGED <<logCh, lost>>
  BY DEF TakeLine, SkipBlank, SendLine, Appends, NextLine, shipping
<1> HIDE DEF c
<1>6. c \in 1 .. Len(rd.data)
  BY <1>1, <1>3, LenProperties DEF EndsLine
<1>7. line \in Seq(Nat) /\ rest \in Seq(Nat)
  BY <1>1, <1>6, CutPieces
<1> HIDE DEF line, rest
<1>8. r \in Reader /\ r.pc = rd.pc /\ r.got = rd.got
  BY <1>1, <1>7, SettledReader
<1>9. o \in Output /\ o.text = line
  BY <1>7 DEF Output
<1> QED
  BY <1>2, <1>3, <1>4, <1>5, <1>8, <1>9 DEF line, rest

(* A reader comes to the end of its pipe.                                  *)
LEMMA ReadEndsEffect ==
    ASSUME TypeOK, NEW j \in Jobs, NEW s \in Sources, ReadEnds(j, s)
    PROVE  LET rd == reader[j][s] IN
           \E r \in Reader :
              /\ Becomes(j, s, r)
              /\ r.pc = (IF rd.incomplete = <<>> THEN "done" ELSE "rest")
              /\ r.got = rd.got /\ r.data = <<>> /\ r.incomplete = rd.incomplete
<1> DEFINE to == IF reader[j][s].incomplete = <<>> THEN "done" ELSE "rest"
           r == [reader[j][s] EXCEPT !.pc = to]
<1>1. Becomes(j, s, r) /\ reader[j][s].data = <<>>
  BY DEF ReadEnds, Becomes
<1>2. \A x \in Reader : \A p \in {"done", "rest"} :
         /\ [x EXCEPT !.pc = p] \in Reader /\ [x EXCEPT !.pc = p].pc = p
         /\ [x EXCEPT !.pc = p].got = x.got /\ [x EXCEPT !.pc = p].data = x.data
         /\ [x EXCEPT !.pc = p].incomplete = x.incomplete
  BY DEF Reader
<1>3. reader[j][s] \in Reader /\ to \in {"done", "rest"}
  BY PipeType
<1> HIDE DEF to
<1>4. /\ r \in Reader /\ r.pc = to /\ r.got = reader[j][s].got
      /\ r.data = reader[j][s].data /\ r.incomplete = reader[j][s].incomplete
  BY <1>2, <1>3
<1> HIDE DEF r
<1> QED
  BY <1>1, <1>4 DEF to

(* The remainder is sent.                                                  *)
LEMMA SendRestEffect ==
    ASSUME TypeOK, NEW j \in Jobs, NEW s \in Sources, SendRest(j, s)
    PROVE  LET rd == reader[j][s] IN
           \E r \in Reader, o \in Output :
              /\ o = [job |-> j, source |-> s, text |-> rd.incomplete]
              /\ Becomes(j, s, r)
              /\ r.pc = "done"
              /\ r.got = rd.got /\ r.data = rd.data /\ r.incomplete = rd.incomplete
              /\ Appends(j, o)
<1> DEFINE r == [reader[j][s] EXCEPT !.pc = "done"]
           o == [job |-> j, source |-> s, text |-> reader[j][s].incomplete]
<1>1. Becomes(j, s, r) /\ Appends(j, o)
  BY DEF SendRest, Becomes, Appends
<1>2. \A x \in Reader :
         /\ [x EXCEPT !.pc = "done"] \in Reader /\ [x EXCEPT !.pc = "done"].pc = "done"
         /\ [x EXCEPT !.pc = "done"].got = x.got /\ [x EXCEPT !.pc = "done"].data = x.data
         /\ [x EXCEPT !.pc = "done"].incomplete = x.incomplete
         /\ x.incomplete \in Seq(Nat)
  BY DEF Reader
<1>3. reader[j][s] \in Reader
  BY PipeType
<1>4. /\ r \in Reader /\ r.pc = "done" /\ r.got = reader[j][s].got
      /\ r.data = reader[j][s].data /\ r.incomplete = reader[j][s].incomplete
      /\ reader[j][s].incomplete \in Seq(Nat)
  BY <1>2, <1>3
<1>5. o \in Output
  BY <1>4 DEF Output
<1> HIDE DEF r
<1> QED
  BY <1>1, <1>4, <1>5

LEMMA PipeTypes ==
    ASSUME TypeOK, ReadersOK, NEW j \in Jobs, NEW s \in Sources, PipeStep(j, s)
    PROVE  TypeOK'
<1>0. /\ logCh \in [Jobs -> Seq(Output)] /\ lost \subseteq Jobs \X Sources \X Nat
      /\ wrote[j][s] \in Nat /\ reader[j][s] \in Reader
  BY DEF TypeOK
<1>1. CASE Write(j, s)
  <2>1. wrote' \in [Jobs -> [Sources -> Nat]]
    BY <1>1 DEF Write, TypeOK
  <2> QED
    BY <1>1, <2>1 DEF Write, TypeOK, shipping
<1>2. CASE Read(j, s)
  <2>1. PICK r \in Reader : Becomes(j, s, r) /\ r.pc = "reading"
    BY <1>2, ReadEffect
  <2> QED
    BY <1>0, <1>2, <2>1, ReaderTypes DEF Read, shipping
<1>3. CASE ReadEnds(j, s)
  <2>1. PICK r \in Reader : Becomes(j, s, r) /\ r.pc \in {"done", "rest"}
    BY <1>3, ReadEndsEffect
  <2>2. {<<j, s, n>> : n \in reader[j][s].got + 1 .. wrote[j][s]} \subseteq Jobs \X Sources \X Nat
    <3>1. reader[j][s].got \in Nat
      BY <1>0 DEF Reader
    <3> QED
      BY <1>0, <3>1
  <2> QED
    BY <1>0, <1>3, <2>1, <2>2, ReaderTypes DEF ReadEnds
<1>4. CASE TakeLine(j, s)
  <2>1. PICK r \in Reader, o \in Output :
          /\ Becomes(j, s, r) /\ r.pc = "reading"
          /\ \/ Appends(j, o) /\ UNCHANGED lost
             \/ lost' = lost \cup Pieces(j, s, o.text) /\ UNCHANGED logCh
             \/ UNCHANGED <<logCh, lost>>
    BY <1>4, TakeLineEffect
  <2>2. logCh' \in [Jobs -> Seq(Output)]
    BY <1>0, <2>1, LogUpdate
  <2>3. o.text \in Seq(Nat)
    BY DEF Output
  <2>4. lost' \subseteq Jobs \X Sources \X Nat
    BY <1>0, <2>1, <2>3, PiecesType
  <2> QED
    BY <1>4, <2>1, <2>2, <2>4, ReaderTypes DEF TakeLine, SkipBlank, SendLine, HasLine, shipping
<1>5. CASE SendRest(j, s)
  <2>1. PICK r \in Reader, o \in Output :
          /\ Becomes(j, s, r) /\ r.pc = "done"
          /\ Appends(j, o)
    BY <1>5, SendRestEffect
  <2>2. logCh' \in [Jobs -> Seq(Output)]
    BY <2>1, LogUpdate
  <2> QED
    BY <1>0, <1>5, <2>1, <2>2, ReaderTypes DEF SendRest, shipping
<1>6. CASE SendPanics(j, s)
  BY <1>6 DEF SendPanics, Panic, TypeOK, streaming, shipping
<1> QED
  BY <1>1, <1>2, <1>3, <1>4, <1>5, <1>6 DEF PipeStep, TakeLine

(* The log shipper.                                                        *)
LEMMA ShipTypes ==
    ASSUME TypeOK, ShipStep
    PROVE  TypeOK'
<1>1. ASSUME NEW j \in Jobs, Number(j) PROVE TypeOK'
  <2>1. logCh[j] \in Seq(Output) /\ logCh[j] # <<>>
    BY <1>1 DEF Number, TypeOK
  <2>2. Head(logCh[j]) \in Output /\ Tail(logCh[j]) \in Seq(Output)
    BY <2>1, HeadTailProperties
  <2>3. /\ logCh' \in [Jobs -> Seq(Output)] /\ logSeq' \in [Commands -> Nat]
        /\ buffer' \subseteq Entry
    BY <1>1, <2>2 DEF Number, TypeOK, Entry
  <2> QED
    BY <1>1, <2>3 DEF Number, TypeOK
<1>2. CASE Flush
  BY <1>2 DEF Flush, TypeOK, streaming
<1>3. ASSUME NEW b \in batches, Ship(b) PROVE TypeOK'
  BY <1>3 DEF Ship, TypeOK, streaming
<1>4. ASSUME NEW b \in batches, ShipFails(b) PROVE TypeOK'
  <2>1. \A e \in b : Pieces(e.out.job, e.out.source, e.out.text) \subseteq Jobs \X Sources \X Nat
    <3> TAKE e \in b
    <3>1. e \in Entry
      BY DEF TypeOK
    <3>2. e.out.job \in Jobs /\ e.out.source \in Sources /\ e.out.text \in Seq(Nat)
      BY <3>1 DEF Entry, Output
    <3> QED
      BY <3>2, PiecesType
  <2>2. lost' \subseteq Jobs \X Sources \X Nat
    BY <1>4, <2>1 DEF ShipFails, TypeOK
  <2>3. batches' \subseteq batches
    BY <1>4 DEF ShipFails
  <2> QED
    BY <1>4, <2>2, <2>3 DEF ShipFails, TypeOK, streaming
<1> QED
  BY <1>1, <1>2, <1>3, <1>4 DEF ShipStep
-----------------------------------------------------------------------------
(* The readers.                                                            *)

(* The ends of the lines of a chunk, and its pieces.                       *)
LEMMA Chunk ==
    ASSUME NEW d \in Seq(Nat)
    PROVE  /\ Len(d) \in Nat /\ DOMAIN d = 1 .. Len(d)
           /\ \A i \in 1 .. Len(d) : d[i] \in Nat
           /\ EndsLine(d) = {i \in 1 .. Len(d) : d[i] \in Newlines}
           /\ d = <<>> <=> Len(d) = 0
  BY LenProperties, EmptySeq DEF EndsLine

LEMMA ReaderFields ==
    \A rd \in Reader : /\ rd.got \in Nat /\ rd.data \in Seq(Nat) /\ rd.incomplete \in Seq(Nat)
                       /\ rd.pc \in {"off", "reading", "rest", "done"}
  BY DEF Reader

(* A reader that goes on with the chunk d.                                 *)
LEMMA SettledOK ==
    ASSUME NEW rd \in Reader, NEW d \in Seq(Nat), ReaderOK(rd), rd.pc = "reading",
           \A i \in 1 .. Len(d) : d[i] <= rd.got,
           \A i, k \in EndsLine(d) : i < k => d[i] < d[k]
    PROVE  ReaderOK(Settled(rd, d))
<1> DEFINE r == Settled(rd, d)
<1>1. /\ r.pc = "reading" /\ r.got = rd.got
      /\ \/ EndsLine(d) # {} /\ r.data = d /\ r.incomplete = rd.incomplete
         \/ EndsLine(d) = {} /\ r.data = <<>> /\ r.incomplete = rd.incomplete
         \/ EndsLine(d) = {} /\ r.data = <<>> /\ r.incomplete = d
  BY SettledReader
<1>2. DOMAIN d = 1 .. Len(d)
  BY Chunk
<1>3. EndsLine(<<>>) = {} /\ DOMAIN <<>> = {}
  BY EmptySeq DEF EndsLine
<1> HIDE DEF r
<1> QED
  BY <1>1, <1>2, <1>3 DEF ReaderOK, r

(* What a read adds to "incomplete": its pieces are new, and only among    *)
(* them a line can end.                                                    *)
LEMMA ReadChunk ==
    ASSUME NEW rd \in Reader, ReaderOK(rd), NEW n \in Nat, n > rd.got
    PROVE  LET d == rd.incomplete \o [i \in 1 .. n - rd.got |-> rd.got + i] IN
           /\ d \in Seq(Nat) /\ d # <<>>
           /\ \A i \in 1 .. Len(d) : d[i] <= n
           /\ \A i \in EndsLine(d) : d[i] > rd.got
           /\ \A i, k \in EndsLine(d) : i < k => d[i] < d[k]
           /\ \A i \in DOMAIN rd.incomplete : \E k \in DOMAIN d : d[k] = rd.incomplete[i]
           /\ \A m \in rd.got + 1 .. n : \E k \in DOMAIN d : d[k] = m
<1> DEFINE p == rd.incomplete
           g == rd.got
           d == p \o [i \in 1 .. n - g |-> g + i]
<1>1. p \in Seq(Nat) /\ g \in Nat /\ n > g
  BY ReaderFields
<1>2. EndsLine(p) = {} /\ \A i \in DOMAIN p : p[i] <= g
  BY DEF ReaderOK
<1> HIDE DEF p, g
<1>3. /\ d \in Seq(Nat) /\ Len(d) = Len(p) + (n - g) /\ d # <<>>
      /\ \A i \in 1 .. Len(p) : d[i] = p[i]
      /\ \A i \in Len(p) + 1 .. Len(d) : d[i] = g + (i - Len(p))
  BY <1>1, ReadPieces
<1> HIDE DEF d
<1>4. /\ Len(p) \in Nat /\ DOMAIN p = 1 .. Len(p) /\ \A i \in 1 .. Len(p) : p[i] \in Nat
      /\ EndsLine(p) = {i \in 1 .. Len(p) : p[i] \in Newlines}
  BY <1>1, Chunk
<1>5. /\ Len(d) \in Nat /\ DOMAIN d = 1 .. Len(d)
      /\ EndsLine(d) = {i \in 1 .. Len(d) : d[i] \in Newlines}
  BY <1>3, Chunk
<1>6. \A i \in 1 .. Len(d) : i <= Len(p) \/ i \in Len(p) + 1 .. Len(d)
  BY <1>4, <1>5
<1>7. ASSUME NEW i \in 1 .. Len(d) PROVE d[i] <= n
  <2>1. CASE i <= Len(p)
    <3>1. i \in 1 .. Len(p)
      BY <1>4, <1>5, <2>1
    <3>2. d[i] = p[i] /\ p[i] <= g /\ p[i] \in Nat
      BY <1>2, <1>3, <1>4, <3>1
    <3> QED
      BY <1>1, <3>2
  <2>2. CASE i \in Len(p) + 1 .. Len(d)
    BY <1>1, <1>3, <1>4, <1>5, <2>2
  <2> QED
    BY <1>6, <2>1, <2>2
<1>8. ASSUME NEW i \in EndsLine(d) PROVE i \in Len(p) + 1 .. Len(d) /\ d[i] = g + (i - Len(p))
  <2>1. i \in 1 .. Len(d) /\ d[i] \in Newlines
    BY <1>5
  <2>2. i \notin 1 .. Len(p)
    BY <1>2, <1>3, <1>4, <2>1
  <2> QED
    BY <1>3, <1>6, <2>1, <2>2
<1>9. \A i \in EndsLine(d) : d[i] > g
  BY <1>1, <1>4, <1>5, <1>8
<1>10. \A i, k \in EndsLine(d) : i < k => d[i] < d[k]
  BY <1>1, <1>4, <1>5, <1>8
<1>11. \A i \in DOMAIN p : i \in DOMAIN d /\ d[i] = p[i]
  BY <1>1, <1>3, <1>4, <1>5
<1>12. ASSUME NEW m \in g + 1 .. n PROVE Len(p) + (m - g) \in DOMAIN d /\ d[Len(p) + (m - g)] = m
  <2> DEFINE k == Len(p) + (m - g)
  <2>1. k \in Len(p) + 1 .. Len(d) /\ k \in 1 .. Len(d) /\ g + (k - Len(p)) = m
    BY <1>1, <1>3, <1>4
  <2> HIDE DEF k
  <2>2. k \in DOMAIN d /\ d[k] = m
    BY <1>3, <1>5, <2>1
  <2> QED
    BY <2>2 DEF k
<1> QED
  BY <1>3, <1>7, <1>9, <1>10, <1>11, <1>12 DEF d, p, g

(* What stays of a chunk d when the line that ends first, at c, is cut off.*)
LEMMA RestChunk ==
    ASSUME NEW rd \in Reader, ReaderOK(rd), NEW c \in EndsLine(rd.data)
    PROVE  LET d    == rd.data
               line == SubSeq(d, 1, c)
               rest == SubSeq(d, c + 1, Len(d)) IN
           /\ line \in Seq(Nat) /\ line # <<>> /\ EndOf(line) = d[c] /\ d[c] \in Newlines
           /\ d[c] <= rd.got
           /\ rest \in Seq(Nat)
           /\ \A i \in 1 .. Len(rest) : rest[i] <= rd.got
           /\ \A i \in EndsLine(rest) : d[c] < rest[i]
           /\ \A i \in EndsLine(rest) : \E k \in EndsLine(d) : rest[i] = d[k]
           /\ \A i, k \in EndsLine(rest) : i < k => rest[i] < rest[k]
           /\ \A i \in DOMAIN d : \/ \E k \in DOMAIN line : line[k] = d[i]
                                  \/ \E k \in DOMAIN rest : rest[k] = d[i]
<1> DEFINE d == rd.data
           line == SubSeq(d, 1, c)
           rest == SubSeq(d, c + 1, Len(d))
<1>1. d \in Seq(Nat)
  BY ReaderFields
<1>2. /\ \A i \in DOMAIN d : d[i] <= rd.got
      /\ \A i, k \in EndsLine(d) : i < k => d[i] < d[k]
  BY DEF ReaderOK
<1>3. /\ Len(d) \in Nat /\ DOMAIN d = 1 .. Len(d)
      /\ EndsLine(d) = {i \in 1 .. Len(d) : d[i] \in Newlines}
  BY <1>1, Chunk
<1>4. c \in EndsLine(d) /\ c \in 1 .. Len(d) /\ d[c] \in Newlines
  BY <1>3
<1> HIDE DEF d
<1>5. /\ line \in Seq(Nat) /\ Len(line) = c /\ line # <<>>
      /\ rest \in Seq(Nat) /\ Len(rest) = Len(d) - c
      /\ \A i \in 1 .. c : line[i] = d[i]
      /\ \A i \in 1 .. Len(d) - c : rest[i] = d[c + i]
  BY <1>1, <1>4, CutPieces
<1> HIDE DEF line, rest
<1>6. DOMAIN line = 1 .. c /\ EndOf(line) = d[c]
  BY <1>4, <1>5, Chunk DEF EndOf
<1>7. /\ DOMAIN rest = 1 .. Len(d) - c
      /\ EndsLine(rest) = {i \in 1 .. Len(d) - c : rest[i] \in Newlines}
  BY <1>5, Chunk
<1>8. \A i \in 1 .. Len(d) - c : c + i \in 1 .. Len(d) /\ c < c + i
  BY <1>3, <1>4
<1>9. \A i \in EndsLine(rest) : c + i \in EndsLine(d) /\ rest[i] = d[c + i] /\ c < c + i
  BY <1>3, <1>5, <1>7, <1>8
<1>10. \A i \in 1 .. Len(rest) : rest[i] <= rd.got
  BY <1>2, <1>3, <1>5, <1>8
<1>11. \A i, k \in EndsLine(rest) : i < k => rest[i] < rest[k]
  <2>1. \A i \in EndsLine(rest) : i \in Nat
    BY <1>3, <1>4, <1>7
  <2>2. \A i, k \in Nat : i < k => c + i < c + k
    BY <1>4
  <2> QED
    BY <1>2, <1>9, <2>1, <2>2
<1>12. \A i \in EndsLine(rest) : d[c] < rest[i]
  BY <1>2, <1>4, <1>9
<1>13. ASSUME NEW i \in DOMAIN d
       PROVE  \/ \E k \in DOMAIN line : line[k] = d[i]
              \/ \E k \in DOMAIN rest : rest[k] = d[i]
  <2>1. CASE i <= c
    BY <1>3, <1>4, <1>5, <1>6, <2>1
  <2>2. CASE ~(i <= c)
    <3>1. i - c \in 1 .. Len(d) - c /\ c + (i - c) = i
      BY <1>3, <1>4, <2>2
    <3> QED
      BY <1>5, <1>7, <3>1
  <2> QED
    BY <2>1, <2>2
<1>14. d[c] <= rd.got
  BY <1>2, <1>3, <1>4
<1> QED
  BY <1>4, <1>5, <1>6, <1>9, <1>10, <1>11, <1>12, <1>13, <1>14 DEF line, rest, d

(* The state of every reader when one of them becomes r.                   *)
LEMMA ReadersUpdate ==
    ASSUME TypeOK, ReadersOK, NEW j \in Jobs, NEW s \in Sources, NEW r \in Reader,
           Becomes(j, s, r), ReaderOK(r),
           r.got <= wrote[j][s], UNCHANGED wrote
    PROVE  ReadersOK'
<1>1. /\ reader'[j][s] = r
      /\ \A l \in Jobs : \A t \in Sources : l # j \/ t # s => reader'[l][t] = reader[l][t]
  BY ReaderUpdate
<1>2. ASSUME NEW l \in Jobs, NEW t \in Sources
      PROVE  /\ reader'[l][t].got <= wrote'[l][t]
             /\ ReaderOK(reader'[l][t])
  <2>1. CASE l = j /\ t = s
    BY <1>1, <2>1
  <2>2. CASE l # j \/ t # s
    BY <1>1, <2>2 DEF ReadersOK
  <2> QED
    BY <2>1, <2>2
<1> QED
  BY <1>2 DEF ReadersOK, ReaderOK, EndsLine

(* The readers themselves are left alone.                                  *)
LEMMA ReadersKept ==
    ASSUME ReadersOK, UNCHANGED <<reader, wrote>>
    PROVE  ReadersOK'
  BY DEF ReadersOK, ReaderOK, EndsLine

LEMMA ReadersInit == Init => ReadersOK
<1>1. ReaderOK([pc |-> "off", got |-> 0, data |-> <<>>, incomplete |-> <<>>])
  BY EmptySeq DEF ReaderOK, EndsLine
<1> QED
  BY <1>1 DEF Init, ReadersOK

LEMMA ReadersMain ==
    ASSUME TypeOK, ReadersOK, NEW j \in Jobs, MainStep(j)
    PROVE  ReadersOK'
<1>1. UNCHANGED wrote
  BY MainMoves
<1>2. CASE UNCHANGED reader
  BY <1>1, <1>2, ReadersKept
<1>3. CASE ExecuteStart(j)
  <2>2. /\ \A s \in Sources : reader'[j][s] = [reader[j][s] EXCEPT !.pc = "reading"]
        /\ \A l \in Jobs \ {j} : reader'[l] = reader[l]
    BY <1>3 DEF ExecuteStart, TypeOK
  <2>3. ASSUME NEW s \in Sources
        PROVE  /\ reader'[j][s].pc = "reading" /\ reader'[j][s].got = reader[j][s].got
               /\ ReaderOK(reader'[j][s])
    <3>1. \A x \in Reader :
             /\ [x EXCEPT !.pc = "reading"].pc = "reading"
             /\ [x EXCEPT !.pc = "reading"].got = x.got
             /\ [x EXCEPT !.pc = "reading"].data = x.data
             /\ [x EXCEPT !.pc = "reading"].incomplete = x.incomplete
      BY DEF Reader
    <3>2. reader[j][s] \in Reader /\ ReaderOK(reader[j][s])
      BY PipeType DEF ReadersOK
    <3> DEFINE r == [reader[j][s] EXCEPT !.pc = "reading"]
    <3>3. /\ r.pc = "reading" /\ r.got = reader[j][s].got /\ r.data = reader[j][s].data
          /\ r.incomplete = reader[j][s].incomplete
      BY <3>1, <3>2
    <3>4. reader'[j][s] = r
      BY <2>2
    <3> HIDE DEF r
    <3> QED
      BY <3>2, <3>3, <3>4 DEF ReaderOK
  <2> QED
    BY <1>1, <2>2, <2>3 DEF ReadersOK, ReaderOK, EndsLine
<1> QED
  BY <1>2, <1>3, MainMoves

LEMMA ReadersPipe ==
    ASSUME TypeOK, ReadersOK, NEW j \in Jobs, NEW s \in Sources, PipeStep(j, s)
    PROVE  ReadersOK'
<1> DEFINE rd == reader[j][s]
<1>0. /\ rd \in Reader /\ wrote[j][s] \in Nat /\ rd.got \in Nat
      /\ rd.got <= wrote[j][s] /\ ReaderOK(rd)
  BY PipeType, ReaderFields DEF ReadersOK
<1>1. CASE Write(j, s)
  <2>1. /\ UNCHANGED reader
        /\ \A l \in Jobs : \A t \in Sources :
              wrote'[l][t] = wrote[l][t] \/ wrote'[l][t] = wrote[l][t] + 1
    BY <1>1 DEF Write, TypeOK
  <2>2. \A l \in Jobs : \A t \in Sources : reader[l][t].got <= wrote'[l][t]
    <3> SUFFICES ASSUME NEW l \in Jobs, NEW t \in Sources
                 PROVE  reader[l][t].got <= wrote'[l][t]
      OBVIOUS
    <3>1. reader[l][t].got \in Nat /\ wrote[l][t] \in Nat /\ reader[l][t].got <= wrote[l][t]
      BY PipeType, ReaderFields DEF ReadersOK
    <3> QED
      BY <2>1, <3>1
  <2> QED
    BY <2>1, <2>2 DEF ReadersOK, ReaderOK, EndsLine
<1>2. CASE Read(j, s)
  <2>1. PICK n \in Nat, d \in Seq(Nat), r \in Reader :
              /\ n > rd.got /\ n <= wrote[j][s]
              /\ d = rd.incomplete \o [i \in 1 .. n - rd.got |-> rd.got + i]
              /\ r = Settled([rd EXCEPT !.got = n], d)
              /\ Becomes(j, s, r)
              /\ r.pc = "reading" /\ r.got = n
    BY <1>2, ReadEffect
  <2>2. /\ \A i \in 1 .. Len(d) : d[i] <= n
        /\ \A i, k \in EndsLine(d) : i < k => d[i] < d[k]
    <3> DEFINE e == rd.incomplete \o [i \in 1 .. n - rd.got |-> rd.got + i]
    <3>1. /\ \A i \in 1 .. Len(e) : e[i] <= n
          /\ \A i, k \in EndsLine(e) : i < k => e[i] < e[k]
      BY <1>0, <2>1, ReadChunk
    <3>2. d = e
      BY <2>1
    <3> HIDE DEF e
    <3> QED
      BY <3>1, <3>2
  <2> DEFINE x == [rd EXCEPT !.got = n]
  <2>3. /\ x \in Reader /\ x.pc = rd.pc /\ x.got = n /\ x.data = rd.data
        /\ x.incomplete = rd.incomplete
    <3> HIDE DEF rd
    <3> QED
      BY <1>0 DEF Reader
  <2>4. rd.pc = "reading" /\ rd.data = <<>>
    BY <1>2 DEF Read
  <2> HIDE DEF x
  <2>5. \A i \in DOMAIN rd.incomplete : rd.incomplete[i] <= n
    <3>1. \A i \in DOMAIN rd.incomplete : rd.incomplete[i] \in Nat /\ rd.incomplete[i] <= rd.got
      <4>1. rd.incomplete \in Seq(Nat)
        BY <1>0, ReaderFields
      <4> QED
        BY <1>0, <4>1, Chunk DEF ReaderOK
    <3>2. rd.got \in Nat /\ n \in Nat /\ n > rd.got
      BY <1>0, <2>1
    <3> QED
      BY <3>1, <3>2
  <2>6. DOMAIN <<>> = {} /\ EndsLine(<<>>) = {}
    BY EmptySeq DEF EndsLine
  <2>7. ReaderOK(x)
    BY <1>0, <2>3, <2>4, <2>5, <2>6 DEF ReaderOK
  <2>8. ReaderOK(Settled(x, d))
    BY <2>2, <2>3, <2>4, <2>7, SettledOK
  <2>9. ReaderOK(r)
    BY <2>1, <2>8 DEF x
  <2>10. UNCHANGED wrote
    BY <1>2 DEF Read
  <2> QED
    BY <2>1, <2>9, <2>10, ReadersUpdate
<1>3. CASE ReadEnds(j, s)
  <2>1. PICK r \in Reader :
              /\ Becomes(j, s, r)
              /\ r.pc = (IF rd.incomplete = <<>> THEN "done" ELSE "rest")
              /\ r.got = rd.got /\ r.data = <<>> /\ r.incomplete = rd.incomplete
    BY <1>3, ReadEndsEffect
  <2>2. UNCHANGED wrote
    BY <1>3 DEF ReadEnds
  <2>3. DOMAIN <<>> = {} /\ EndsLine(<<>>) = {}
    BY EmptySeq DEF EndsLine
  <2>4. ReaderOK(r)
    BY <1>0, <2>1, <2>3 DEF ReaderOK
  <2> QED
    BY <1>0, <2>1, <2>2, <2>4, ReadersUpdate
<1>4. CASE TakeLine(j, s)
  <2>1. PICK c \in EndsLine(rd.data), r \in Reader :
              /\ r = Settled(rd, SubSeq(rd.data, c + 1, Len(rd.data)))
              /\ Becomes(j, s, r)
              /\ r.pc = "reading" /\ r.got = rd.got
    BY <1>4, TakeLineEffect
  <2> DEFINE rest == SubSeq(rd.data, c + 1, Len(rd.data))
  <2>2. /\ rest \in Seq(Nat)
        /\ \A i \in 1 .. Len(rest) : rest[i] <= rd.got
        /\ \A i, k \in EndsLine(rest) : i < k => rest[i] < rest[k]
    BY <1>0, RestChunk
  <2>3. rd.pc = "reading" /\ UNCHANGED wrote
    BY <1>4 DEF TakeLine, SkipBlank, SendLine, HasLine
  <2> HIDE DEF rest
  <2>4. ReaderOK(Settled(rd, rest))
    BY <1>0, <2>2, <2>3, SettledOK
  <2>5. ReaderOK(r)
    BY <2>1, <2>4 DEF rest
  <2> QED
    BY <1>0, <2>1, <2>3, <2>5, ReadersUpdate
<1>5. CASE SendRest(j, s)
  <2>1. PICK r \in Reader :
              /\ Becomes(j, s, r)
              /\ r.pc = "done"
              /\ r.got = rd.got /\ r.data = rd.data /\ r.incomplete = rd.incomplete
    BY <1>5, SendRestEffect
  <2>2. rd.pc = "rest" /\ UNCHANGED wrote
    BY <1>5 DEF SendRest
  <2>3. ReaderOK(r)
    BY <1>0, <2>1, <2>2 DEF ReaderOK
  <2> QED
    BY <1>0, <2>1, <2>2, <2>3, ReadersUpdate
<1>6. CASE SendPanics(j, s)
  BY <1>6, ReadersKept DEF SendPanics, Panic, streaming
<1> QED
  BY <1>1, <1>2, <1>3, <1>4, <1>5, <1>6 DEF PipeStep, TakeLine

LEMMA ReadersOther ==
    ASSUME TypeOK, ReadersOK, (\E j \in Jobs : WaitStep(j)) \/ ShipStep
    PROVE  ReadersOK'
<1>1. UNCHANGED <<reader, wrote>>
  BY DEF WaitStep, Exit, Wait, Forget, CloseLog, Advance, HandleResult, ShipStep, Number,
         Flush, Ship, ShipFails, streaming
<1> QED
  BY <1>1, ReadersKept
-----------------------------------------------------------------------------
(* The lines that have been sent.                                          *)

LEMMA SentElements ==
    \A o : o \in Sent <=> \/ \E j \in Jobs : o \in Lines(j)
                          \/ \E e \in Entries : o = e.out
  BY DEF Sent

LEMMA SentType ==
    TypeOK => /\ Sent \subseteq Output /\ Entries \subseteq Entry
              /\ \A j \in Jobs : Lines(j) \subseteq Output /\ Lines(j) \subseteq Sent
              /\ \A e \in Entries : e.out \in Sent /\ e.out \in Output
<1> SUFFICES ASSUME TypeOK
             PROVE  /\ Sent \subseteq Output /\ Entries \subseteq Entry
                    /\ \A j \in Jobs : Lines(j) \subseteq Output /\ Lines(j) \subseteq Sent
                    /\ \A e \in Entries : e.out \in Sent /\ e.out \in Output
  OBVIOUS
<1>1. Entries \subseteq Entry
  BY DEF Entries, TypeOK
<1>2. \A e \in Entry : e.out \in Output
  BY DEF Entry
<1>3. ASSUME NEW j \in Jobs PROVE Lines(j) \subseteq Output
  <2>1. logCh[j] \in Seq(Output)
    BY DEF TypeOK
  <2>2. \A i \in DOMAIN logCh[j] : logCh[j][i] \in Output
    BY <2>1, LenProperties
  <2> QED
    BY <2>2 DEF Lines
<1>4. \A e \in Entries : e.out \in Output
  BY <1>1, <1>2
<1>5. Sent \subseteq Output
  BY <1>3, <1>4, SentElements
<1>6. \A j \in Jobs : Lines(j) \subseteq Sent
  BY SentElements
<1>7. \A e \in Entries : e.out \in Sent
  BY SentElements
<1> QED
  BY <1>1, <1>3, <1>4, <1>5, <1>6, <1>7

LEMMA OutputFields ==
    \A o \in Output : o.job \in Jobs /\ o.source \in Sources /\ o.text \in Seq(Nat)
  BY DEF Output

(* A reader rd that goes on as r: new chunks hold new pieces, and a chunk  *)
(* in work only shrinks.                                                   *)
GoesOn(rd, r) ==
    /\ r.got >= rd.got
    /\ rd.pc = "done" => r.pc = "done"
    /\ rd.pc # "off" => r.pc # "off"
    /\ \A i \in EndsLine(r.data) :
          (\E k \in EndsLine(rd.data) : r.data[i] = rd.data[k]) \/ r.data[i] > rd.got

(* A sent line stays as it should be when the reader it came from goes on. *)
LEMMA LinesStay ==
    ASSUME TypeOK, NEW j \in Jobs, NEW s \in Sources, NEW r \in Reader,
           Becomes(j, s, r),
           GoesOn(reader[j][s], r), NEW o \in Output, LineOK(o)
    PROVE  LineOK(o)'
<1>1. /\ reader'[j][s] = r
      /\ \A l \in Jobs : \A t \in Sources : l # j \/ t # s => reader'[l][t] = reader[l][t]
  BY ReaderUpdate
<1>2. o.job \in Jobs /\ o.source \in Sources /\ o.text \in Seq(Nat)
  BY OutputFields
<1>3. CASE o.job = j /\ o.source = s
  <2> DEFINE rd == reader[j][s]
  <2>1. /\ rd.pc # "off" /\ o.text # <<>> /\ EndOf(o.text) <= rd.got
        /\ EndOf(o.text) \in Newlines \/ rd.pc = "done"
        /\ \A i \in EndsLine(rd.data) : EndOf(o.text) < rd.data[i]
    BY <1>3 DEF LineOK
  <2>2. EndOf(o.text) \in Nat
    BY <1>2, <2>1, Chunk DEF EndOf
  <2>3. rd.got \in Nat /\ r.got \in Nat /\ r.data \in Seq(Nat)
    BY PipeType, ReaderFields
  <2>4. \A i \in EndsLine(r.data) : r.data[i] \in Nat
    BY <2>3, Chunk
  <2>5. EndOf(o.text) <= r.got
    BY <2>1, <2>2, <2>3 DEF GoesOn
  <2>6. \A i \in EndsLine(r.data) : EndOf(o.text) < r.data[i]
    BY <2>1, <2>2, <2>3, <2>4 DEF GoesOn
  <2>7. LineOK(o)' <=>
           /\ r.pc # "off" /\ o.text # <<>> /\ EndOf(o.text) <= r.got
           /\ EndOf(o.text) \in Newlines \/ r.pc = "done"
           /\ \A i \in EndsLine(r.data) : EndOf(o.text) < r.data[i]
    BY <1>1, <1>3 DEF LineOK, EndOf, EndsLine
  <2> QED
    BY <2>1, <2>5, <2>6, <2>7 DEF GoesOn
<1>4. CASE o.job # j \/ o.source # s
  <2>1. reader'[o.job][o.source] = reader[o.job][o.source]
    BY <1>1, <1>2, <1>4
  <2> QED
    BY <2>1 DEF LineOK, EndOf, EndsLine
<1> QED
  BY <1>3, <1>4

(* Nothing is sent.                                                        *)
LEMMA SameLines ==
    ASSUME LinesOK, UNCHANGED <<logCh, buffer, batches, rows>>,
           \A o \in Sent : LineOK(o)'
    PROVE  LinesOK' /\ Sent' = Sent
<1>1. Entries' = Entries /\ \A j \in Jobs : Lines(j)' = Lines(j)
  BY DEF Entries, Lines
<1>2. Sent' = Sent
  BY <1>1 DEF Sent
<1>3. (\A o \in Sent : LineOK(o))'
  BY <1>2
<1> QED
  BY <1>1, <1>2, <1>3 DEF LinesOK

(* The line o is sent.                                                     *)
LEMMA NewLine ==
    ASSUME TypeOK, LinesOK, NEW j \in Jobs, NEW o \in Output, o.job = j,
           o \notin Sent,
           Appends(j, o),
           UNCHANGED <<buffer, batches, rows>>,
           \A x \in Sent \cup {o} : LineOK(x)'
    PROVE  LinesOK' /\ Sent' = Sent \cup {o}
<1>1. /\ logCh'[j] = Append(logCh[j], o)
      /\ \A l \in Jobs \ {j} : logCh'[l] = logCh[l]
  BY LogUpdate
<1>2. logCh[j] \in Seq(Output)
  BY DEF TypeOK
<1> DEFINE q == logCh[j]
           n == Len(q)
<1>3. /\ n \in Nat /\ DOMAIN q = 1 .. n
      /\ DOMAIN logCh'[j] = 1 .. n + 1
      /\ \A i \in 1 .. n : logCh'[j][i] = q[i]
      /\ logCh'[j][n + 1] = o
  BY <1>1, <1>2, AppendProperties, LenProperties
<1>4. \A i \in 1 .. n + 1 : i \in 1 .. n \/ i = n + 1
  BY <1>3
<1> HIDE DEF n
<1>5. Lines(j)' = Lines(j) \cup {o}
  <2>1. Lines(j) = {q[i] : i \in 1 .. n}
    BY <1>3 DEF Lines
  <2>2. Lines(j)' = {logCh'[j][i] : i \in 1 .. n + 1}
    BY <1>3 DEF Lines
  <2>3. 1 .. n \subseteq 1 .. n + 1 /\ n + 1 \in 1 .. n + 1
    BY <1>3
  <2> QED
    BY <1>3, <1>4, <2>1, <2>2, <2>3
<1>6. \A l \in Jobs \ {j} : Lines(l)' = Lines(l)
  BY <1>1 DEF Lines
<1>7. Entries' = Entries
  BY DEF Entries
<1>8. Sent' = Sent \cup {o}
  BY <1>5, <1>6, <1>7 DEF Sent
<1>9. \A i \in 1 .. n : q[i] # o /\ q[i].job = j
  <2>1. \A i \in 1 .. n : q[i] \in Lines(j)
    BY <1>3 DEF Lines
  <2> QED
    BY <1>3, <2>1 DEF Sent, LinesOK
<1>10. \A i, k \in 1 .. n + 1 :
          logCh'[j][i].job = j /\ (logCh'[j][i] = logCh'[j][k] => i = k)
  <2>1. \A i, k \in 1 .. n : q[i] = q[k] => i = k
    BY <1>3 DEF LinesOK
  <2> QED
    BY <1>3, <1>4, <1>9, <2>1
<1>11. (\A l \in Jobs : \A i, k \in DOMAIN logCh[l] :
          logCh[l][i].job = l /\ (logCh[l][i] = logCh[l][k] => i = k))'
  <2>1. ASSUME NEW l \in Jobs \ {j}
        PROVE  \A i, k \in DOMAIN logCh'[l] :
                  logCh'[l][i].job = l /\ (logCh'[l][i] = logCh'[l][k] => i = k)
    BY <1>1 DEF LinesOK
  <2>2. \A i, k \in DOMAIN logCh'[j] :
           logCh'[j][i].job = j /\ (logCh'[j][i] = logCh'[j][k] => i = k)
    BY <1>3, <1>10
  <2> QED
    BY <2>1, <2>2
<1>12. (\A l \in Jobs : \A x \in Lines(l) : \A e \in Entries : e.out # x)'
  <2>1. \A l \in Jobs : \A x \in Lines(l) : \A e \in Entries : e.out # x
    BY DEF LinesOK
  <2>2. \A e \in Entries : e.out # o
    BY SentElements
  <2> QED
    BY <1>5, <1>6, <1>7, <2>1, <2>2
<1>13. (\A x \in Sent : LineOK(x))'
  BY <1>8
<1> QED
  BY <1>8, <1>11, <1>12, <1>13 DEF LinesOK

(* A line that ends in a chunk, or a remainder, is unlike all sent before. *)
LEMMA LineIsNew ==
    ASSUME TypeOK, LinesOK, NEW j \in Jobs, NEW s \in Sources,
           NEW o \in Output, o.job = j, o.source = s,
           \/ \E c \in EndsLine(reader[j][s].data) : EndOf(o.text) = reader[j][s].data[c]
           \/ EndOf(o.text) \notin Newlines /\ reader[j][s].pc # "done"
    PROVE  o \notin Sent
<1>1. \A i \in EndsLine(reader[j][s].data) : ~(reader[j][s].data[i] < reader[j][s].data[i])
  <2>1. reader[j][s].data \in Seq(Nat)
    BY PipeType, ReaderFields
  <2>2. \A i \in EndsLine(reader[j][s].data) : reader[j][s].data[i] \in Nat
    BY <2>1, Chunk
  <2> QED
    BY <2>2
<1> QED
  BY <1>1 DEF LinesOK, LineOK

LEMMA LinesInit == Init => LinesOK
<1> SUFFICES ASSUME Init PROVE LinesOK
  OBVIOUS
<1>1. Entries = {} /\ \A j \in Jobs : logCh[j] = <<>>
  BY DEF Init, Entries
<1>2. \A j \in Jobs : DOMAIN logCh[j] = {}
  BY <1>1, EmptySeq
<1>3. \A j \in Jobs : Lines(j) = {}
  BY <1>2 DEF Lines
<1>4. Sent = {}
  BY <1>1, <1>3, SentElements
<1> QED
  BY <1>1, <1>2, <1>3, <1>4 DEF LinesOK

(* The main loop starts readers, of a job that has sent nothing.           *)
LEMMA LinesMain ==
    ASSUME TypeOK, LinesOK, NEW j \in Jobs, MainStep(j)
    PROVE  LinesOK' /\ Sent' = Sent
<1>1. UNCHANGED <<logCh, buffer, batches, rows>>
  BY MainMoves
<1>2. ASSUME NEW o \in Sent PROVE LineOK(o)'
  <2>1. LineOK(o) /\ o.job \in Jobs /\ o.source \in Sources
    BY SentType, OutputFields DEF LinesOK
  <2>2. CASE UNCHANGED reader
    BY <2>1, <2>2 DEF LineOK, EndOf, EndsLine
  <2>3. CASE ExecuteStart(j)
    <3>1. proc[j] = "listed"
      BY <2>3 DEF ExecuteStart
    <3>2. o.job # j
      <4>1. reader[o.job][o.source].pc # "off"
        BY <2>1 DEF LineOK
      <4> QED
        BY <2>1, <3>1, <4>1 DEF TypeOK
    <3>3. reader'[o.job] = reader[o.job]
      BY <2>1, <2>3, <3>2 DEF ExecuteStart, TypeOK
    <3> QED
      BY <2>1, <3>3 DEF LineOK, EndOf, EndsLine
  <2> QED
    BY <2>2, <2>3, MainMoves
<1> QED
  BY <1>1, <1>2, SameLines

(* The waiting goroutine touches no line.                                  *)
LEMMA LinesWait ==
    ASSUME LinesOK, UNCHANGED <<reader, logCh, buffer, batches, rows>>
    PROVE  LinesOK' /\ Sent' = Sent
<1>1. \A o \in Sent : LineOK(o)'
  BY DEF LinesOK, LineOK, EndOf, EndsLine
<1> QED
  BY <1>1, SameLines

(* A read brings new pieces, so lines that were sent are unlike those that *)
(* end in them.                                                            *)
LEMMA LinesRead ==
    ASSUME TypeOK, ReadersOK, LinesOK, NEW j \in Jobs, NEW s \in Sources, Read(j, s)
    PROVE  LinesOK' /\ Sent' = Sent
<1> DEFINE rd == reader[j][s]
<1>1. PICK n \in Nat, d \in Seq(Nat), r \in Reader :
            /\ n > rd.got /\ n <= wrote[j][s]
            /\ d = rd.incomplete \o [i \in 1 .. n - rd.got |-> rd.got + i]
            /\ r = Settled([rd EXCEPT !.got = n], d)
            /\ Becomes(j, s, r)
            /\ r.pc = "reading" /\ r.got = n
  BY ReadEffect
<1>2. rd \in Reader /\ ReaderOK(rd) /\ rd.got \in Nat /\ rd.pc = "reading"
  BY PipeType, ReaderFields DEF ReadersOK, Read
<1>3. \A i \in EndsLine(d) : d[i] > rd.got
  <2> DEFINE e == rd.incomplete \o [i \in 1 .. n - rd.got |-> rd.got + i]
  <2>1. \A i \in EndsLine(e) : e[i] > rd.got
    BY <1>1, <1>2, ReadChunk
  <2>2. d = e
    BY <1>1
  <2> HIDE DEF e
  <2> QED
    BY <2>1, <2>2
<1>4. r.data = d \/ EndsLine(r.data) = {}
  <2> DEFINE x == [rd EXCEPT !.got = n]
  <2>1. x \in Reader
    <3> HIDE DEF rd
    <3> QED
      BY <1>2 DEF Reader
  <2> HIDE DEF x
  <2>2. Settled(x, d).data \in {d, <<>>}
    BY <2>1, SettledReader
  <2>3. r = Settled(x, d)
    BY <1>1 DEF x
  <2>4. EndsLine(<<>>) = {}
    BY EmptySeq DEF EndsLine
  <2> QED
    BY <2>2, <2>3, <2>4
<1>5. GoesOn(rd, r)
  <2>1. r.got >= rd.got
    BY <1>1, <1>2
  <2>2. (rd.pc = "done" => r.pc = "done") /\ r.pc # "off"
    BY <1>1, <1>2
  <2> QED
    BY <1>3, <1>4, <2>1, <2>2 DEF GoesOn
<1>6. \A o \in Sent : LineOK(o)'
  BY <1>1, <1>5, LinesStay, SentType DEF LinesOK
<1>7. UNCHANGED <<logCh, buffer, batches, rows>>
  BY DEF Read, shipping
<1> QED
  BY <1>6, <1>7, SameLines

(* The end of a pipe.                                                      *)
LEMMA LinesReadEnds ==
    ASSUME TypeOK, ReadersOK, LinesOK, NEW j \in Jobs, NEW s \in Sources, ReadEnds(j, s)
    PROVE  LinesOK' /\ Sent' = Sent
<1> DEFINE rd == reader[j][s]
<1>1. PICK r \in Reader :
            /\ Becomes(j, s, r) /\ r.pc # "off"
            /\ r.got = rd.got /\ r.data = <<>>
  BY ReadEndsEffect
<1>2. rd.got \in Nat /\ rd.pc = "reading"
  BY PipeType, ReaderFields DEF ReadEnds
<1>3. EndsLine(<<>>) = {}
  BY EmptySeq DEF EndsLine
<1>4. GoesOn(rd, r)
  BY <1>1, <1>2, <1>3 DEF GoesOn
<1>5. \A o \in Sent : LineOK(o)'
  BY <1>1, <1>4, LinesStay, SentType DEF LinesOK
<1>6. UNCHANGED <<logCh, buffer, batches, rows>>
  BY DEF ReadEnds
<1> QED
  BY <1>5, <1>6, SameLines

(* A line leaves the chunk for the channel, or is dropped or passed over.  *)
LEMMA LinesSend ==
    ASSUME TypeOK, ReadersOK, LinesOK, NEW j \in Jobs, NEW s \in Sources, TakeLine(j, s)
    PROVE  LinesOK' /\ Sent \subseteq Sent'
<1> DEFINE rd == reader[j][s]
<1>1. PICK c \in EndsLine(rd.data), r \in Reader, o \in Output :
            /\ o = [job |-> j, source |-> s, text |-> SubSeq(rd.data, 1, c)]
            /\ r = Settled(rd, SubSeq(rd.data, c + 1, Len(rd.data)))
            /\ Becomes(j, s, r)
            /\ r.pc = "reading" /\ r.got = rd.got
            /\ \/ Appends(j, o) /\ UNCHANGED lost
               \/ lost' = lost \cup Pieces(j, s, o.text) /\ UNCHANGED logCh
               \/ UNCHANGED logCh
  BY TakeLineEffect
<1>2. rd \in Reader /\ ReaderOK(rd) /\ rd.got \in Nat /\ rd.pc = "reading"
  BY PipeType, ReaderFields DEF ReadersOK, TakeLine, SkipBlank, SendLine, HasLine
<1> DEFINE line == SubSeq(rd.data, 1, c)
           rest == SubSeq(rd.data, c + 1, Len(rd.data))
<1>3. /\ line # <<>> /\ EndOf(line) = rd.data[c] /\ rd.data[c] \in Newlines
      /\ rd.data[c] <= rd.got
      /\ rest \in Seq(Nat)
      /\ \A i \in EndsLine(rest) : rd.data[c] < rest[i]
      /\ \A i \in EndsLine(rest) : \E k \in EndsLine(rd.data) : rest[i] = rd.data[k]
  <2>1. c \in EndsLine(rd.data)
    BY <1>1
  <2> HIDE DEF rd
  <2> QED
    BY <1>2, <2>1, RestChunk
<1>4. o.job = j /\ o.source = s /\ o.text = line
  BY <1>1
<1>5. r.data = rest \/ EndsLine(r.data) = {}
  <2> HIDE DEF rest
  <2>1. Settled(rd, rest).data \in {rest, <<>>}
    BY <1>2, <1>3, SettledReader
  <2>2. r = Settled(rd, rest)
    BY <1>1 DEF rest
  <2>3. EndsLine(<<>>) = {}
    BY EmptySeq DEF EndsLine
  <2> QED
    BY <2>1, <2>2, <2>3
<1> HIDE DEF line, rest
<1>6. GoesOn(rd, r)
  <2>1. r.got >= rd.got /\ rd.pc # "done" /\ r.pc # "off"
    BY <1>1, <1>2
  <2> QED
    BY <1>3, <1>5, <2>1 DEF GoesOn
<1>7. \A p \in Sent : LineOK(p)'
  BY <1>1, <1>6, LinesStay, SentType DEF LinesOK
<1>8. LineOK(o)'
  <2>1. reader'[o.job][o.source] = r
    BY <1>1, <1>4, ReaderUpdate
  <2>2. \A i \in EndsLine(r.data) : EndOf(line) < r.data[i]
    BY <1>3, <1>5
  <2> QED
    BY <1>1, <1>3, <1>4, <2>1, <2>2 DEF LineOK, EndOf, EndsLine
<1>9. o \notin Sent
  BY <1>1, <1>3, <1>4, LineIsNew
<1>10. UNCHANGED <<buffer, batches, rows>>
  BY DEF TakeLine, SkipBlank, SendLine, shipping
<1>11. CASE Appends(j, o)
  BY <1>4, <1>7, <1>8, <1>9, <1>10, <1>11, NewLine
<1>12. CASE UNCHANGED logCh
  BY <1>7, <1>10, <1>12, SameLines
<1> QED
  BY <1>1, <1>11, <1>12

(* The remainder goes to the channel, and the reader is done.              *)
LEMMA LinesRest ==
    ASSUME TypeOK, ReadersOK, LinesOK, NEW j \in Jobs, NEW s \in Sources, SendRest(j, s)
    PROVE  LinesOK' /\ Sent \subseteq Sent'
<1> DEFINE rd == reader[j][s]
<1>1. PICK r \in Reader, o \in Output :
            /\ o = [job |-> j, source |-> s, text |-> rd.incomplete]
            /\ Becomes(j, s, r)
            /\ r.pc = "done"
            /\ r.got = rd.got /\ r.data = rd.data /\ r.incomplete = rd.incomplete
            /\ Appends(j, o)
  BY SendRestEffect
<1>2. rd \in Reader /\ ReaderOK(rd) /\ rd.got \in Nat /\ rd.pc = "rest"
  BY PipeType, ReaderFields DEF ReadersOK, SendRest
<1> DEFINE text == rd.incomplete
<1>3. text \in Seq(Nat) /\ o.job = j /\ o.source = s /\ o.text = text
  BY <1>1, <1>2, ReaderFields
<1>4. /\ text # <<>> /\ EndsLine(text) = {} /\ rd.data = <<>>
      /\ \A i \in DOMAIN text : text[i] <= rd.got
  BY <1>2 DEF ReaderOK
<1> HIDE DEF text
<1>5. EndOf(text) \notin Newlines /\ EndOf(text) <= rd.got
  <2>1. Len(text) \in DOMAIN text
    BY <1>3, <1>4, Chunk
  <2> QED
    BY <1>4, <2>1 DEF EndOf, EndsLine
<1>6. EndsLine(r.data) = {}
  BY <1>1, <1>4, EmptySeq DEF EndsLine
<1>7. GoesOn(rd, r)
  BY <1>1, <1>2, <1>6 DEF GoesOn
<1>8. \A p \in Sent : LineOK(p)'
  BY <1>1, <1>7, LinesStay, SentType DEF LinesOK
<1>9. LineOK(o)'
  <2>0. reader'[j][s] = r
    BY <1>1, ReaderUpdate
  <2>1. reader'[o.job][o.source] = r
    BY <1>3, <2>0
  <2> DEFINE rx == reader'[o.job][o.source]
  <2>2. LineOK(o)' <=>
           /\ rx.pc # "off" /\ o.text # <<>> /\ EndOf(o.text) <= rx.got
           /\ EndOf(o.text) \in Newlines \/ rx.pc = "done"
           /\ \A i \in EndsLine(rx.data) : EndOf(o.text) < rx.data[i]
    BY DEF LineOK, EndOf, EndsLine
  <2> HIDE DEF rx
  <2>3. rx = r
    BY <2>1 DEF rx
  <2> QED
    BY <1>1, <1>3, <1>4, <1>5, <1>6, <2>2, <2>3
<1>10. o \notin Sent
  BY <1>2, <1>3, <1>5, LineIsNew
<1>11. UNCHANGED <<buffer, batches, rows>>
  BY DEF SendRest, shipping
<1> QED
  BY <1>1, <1>3, <1>8, <1>9, <1>10, <1>11, NewLine

LEMMA LinesPipe ==
    ASSUME TypeOK, ReadersOK, LinesOK, NEW j \in Jobs, NEW s \in Sources, PipeStep(j, s)
    PROVE  LinesOK' /\ Sent \subseteq Sent'
<1>1. CASE Write(j, s) \/ SendPanics(j, s)
  <2>1. UNCHANGED <<reader, logCh, buffer, batches, rows>>
    BY <1>1 DEF Write, SendPanics, Panic, streaming, shipping
  <2> QED
    BY <2>1, LinesWait
<1> QED
  BY <1>1, LinesRead, LinesReadEnds, LinesSend, LinesRest DEF PipeStep, TakeLine
-----------------------------------------------------------------------------
(* The log shipper moves lines from place to place.                        *)

(* The first line of a channel becomes an entry, which is a new one.       *)
LEMMA NumberEffect ==
    ASSUME TypeOK, LinesOK, NEW j \in Jobs, Number(j)
    PROVE  \E e : /\ buffer' = buffer \cup {e} /\ UNCHANGED <<batches, rows>>
                  /\ Entries' = Entries \cup {e}
                  /\ \A f \in Entries : f.out # e.out
                  /\ LinesOK' /\ Sent' = Sent
<1> DEFINE e == [cmd |-> cmd[j], seq |-> logSeq[cmd[j]], out |-> Head(logCh[j])]
           q == logCh[j]
<1>1. /\ q # <<>> /\ buffer' = buffer \cup {e}
      /\ logCh' = [logCh EXCEPT ![j] = Tail(@)]
      /\ UNCHANGED <<batches, rows, reader>>
  BY DEF Number
<1>2. q \in Seq(Output)
  BY DEF TypeOK
<1>3. /\ Len(q) \in Nat \ {0} /\ DOMAIN q = 1 .. Len(q)
      /\ Head(q) = q[1] /\ Tail(q) \in Seq(Output)
      /\ DOMAIN Tail(q) = 1 .. Len(q) - 1
      /\ \A i \in 1 .. Len(q) - 1 : Tail(q)[i] = q[i + 1]
  BY <1>1, <1>2, HeadTailProperties, LenProperties, EmptySeq
<1>4. logCh'[j] = Tail(q) /\ \A l \in Jobs \ {j} : logCh'[l] = logCh[l]
  BY <1>1 DEF TypeOK
<1>5. e.out = q[1]
  BY <1>3
<1> HIDE DEF e
<1>6. /\ \A i, k \in DOMAIN q : q[i].job = j /\ (q[i] = q[k] => i = k)
      /\ \A i \in DOMAIN q : \A f \in Entries : f.out # q[i]
  BY DEF LinesOK, Lines
<1>7. Entries' = Entries \cup {e}
  BY <1>1 DEF Entries
<1>8. 1 \in DOMAIN q /\ \A i \in 1 .. Len(q) - 1 : i + 1 \in DOMAIN q /\ i + 1 # 1
  BY <1>3
<1>9. \A f \in Entries : f.out # e.out
  BY <1>5, <1>6, <1>8
<1>10. Lines(j) = Lines(j)' \cup {q[1]} /\ q[1] \notin Lines(j)'
  <2>0. Lines(j)' = {Tail(q)[i] : i \in DOMAIN Tail(q)}
    BY <1>4 DEF Lines
  <2>1. Lines(j)' = {q[i + 1] : i \in 1 .. Len(q) - 1}
    BY <1>3, <2>0
  <2>2. q[1] \notin Lines(j)'
    BY <1>6, <1>8, <2>1
  <2>3. \A i \in 1 .. Len(q) : i = 1 \/ (i - 1 \in 1 .. Len(q) - 1 /\ (i - 1) + 1 = i)
    BY <1>3
  <2>4. ASSUME NEW o \in Lines(j) PROVE o = q[1] \/ o \in Lines(j)'
    <3>1. PICK i \in 1 .. Len(q) : o = q[i]
      BY <1>3 DEF Lines
    <3>2. CASE i = 1
      BY <3>1, <3>2
    <3>3. CASE i - 1 \in 1 .. Len(q) - 1 /\ (i - 1) + 1 = i
      BY <2>1, <3>1, <3>3
    <3> QED
      BY <2>3, <3>2, <3>3
  <2>5. Lines(j)' \subseteq Lines(j) /\ q[1] \in Lines(j)
    BY <1>8, <2>1 DEF Lines
  <2> QED
    BY <2>2, <2>4, <2>5
<1>11. \A l \in Jobs \ {j} : Lines(l)' = Lines(l)
  BY <1>4 DEF Lines
<1>12. Sent' = Sent
  <2>1. (\A o : o \in Sent <=> \/ \E l \in Jobs : o \in Lines(l)
                               \/ \E f \in Entries : o = f.out)'
    BY DEF Sent
  <2>2. \A o : o \in Sent' <=> o \in Sent
    BY <1>5, <1>7, <1>10, <1>11, <2>1, SentElements
  <2> QED
    BY <2>2
<1>13. LinesOK'
  <2>1. (\A l \in Jobs : \A i, k \in DOMAIN logCh[l] :
          logCh[l][i].job = l /\ (logCh[l][i] = logCh[l][k] => i = k))'
    <3>0. \A i, k \in 1 .. Len(q) - 1 :
             Tail(q)[i].job = j /\ (Tail(q)[i] = Tail(q)[k] => i = k)
      <4>1. \A i, k \in 1 .. Len(q) - 1 :
               q[i + 1].job = j /\ (q[i + 1] = q[k + 1] => i + 1 = k + 1)
        BY <1>6, <1>8
      <4>2. \A i, k \in 1 .. Len(q) - 1 : i + 1 = k + 1 => i = k
        BY <1>3
      <4> QED
        BY <1>3, <4>1, <4>2
    <3>1. \A i, k \in DOMAIN logCh'[j] :
             logCh'[j][i].job = j /\ (logCh'[j][i] = logCh'[j][k] => i = k)
      <4> DEFINE t == Tail(q)
      <4>1. DOMAIN t = 1 .. Len(q) - 1 /\ logCh'[j] = t
        BY <1>3, <1>4
      <4>2. \A i, k \in 1 .. Len(q) - 1 : t[i].job = j /\ (t[i] = t[k] => i = k)
        BY <3>0
      <4> HIDE DEF t, q
      <4> QED
        BY <4>1, <4>2
    <3>2. \A l \in Jobs \ {j} : \A i, k \in DOMAIN logCh'[l] :
             logCh'[l][i].job = l /\ (logCh'[l][i] = logCh'[l][k] => i = k)
      BY <1>4 DEF LinesOK
    <3> QED
      BY <3>1, <3>2
  <2>2. (\A l \in Jobs : \A o \in Lines(l) : \A f \in Entries : f.out # o)'
    <3>1. \A l \in Jobs : \A o \in Lines(l) : \A f \in Entries : f.out # o
      BY DEF LinesOK
    <3>2. \A l \in Jobs \ {j} : \A o \in Lines(l) : o.job = l
      BY DEF LinesOK, Lines
    <3>3. q[1].job = j
      BY <1>6, <1>8
    <3>4. \A l \in Jobs : \A o \in Lines(l)' : o \in Lines(l) /\ o # q[1]
      BY <1>10, <1>11, <3>2, <3>3
    <3> QED
      BY <1>5, <1>7, <3>1, <3>4
  <2>3. (\A o \in Sent : LineOK(o))'
    BY <1>1, <1>12 DEF LinesOK, LineOK, EndOf, EndsLine
  <2> QED
    BY <2>1, <2>2, <2>3 DEF LinesOK
<1> QED
  BY <1>1, <1>7, <1>9, <1>12, <1>13

(* What ShippedOnce asks of the buffer, the table and the batches.         *)
LEMMA ShippedMoves ==
    ASSUME ShippedOnce, Entries' = Entries,
           \/ UNCHANGED <<buffer, rows, batches>>
           \/ Flush
           \/ \E b \in batches : Ship(b)
    PROVE  ShippedOnce'
<1>0. (\A e, f \in Entries : e.out = f.out => e = f)'
  BY DEF ShippedOnce
<1>1. CASE UNCHANGED <<buffer, rows, batches>>
  BY <1>0, <1>1 DEF ShippedOnce
<1>2. CASE Flush
  BY <1>0, <1>2 DEF Flush, ShippedOnce
<1>3. ASSUME NEW b \in batches, Ship(b) PROVE ShippedOnce'
  BY <1>0, <1>3 DEF Ship, ShippedOnce
<1> QED
  BY <1>1, <1>2, <1>3

LEMMA LinesShip ==
    ASSUME TypeOK, LinesOK, ShippedOnce, ShipStep
    PROVE  /\ LinesOK' /\ ShippedOnce'
           /\ \/ Sent' = Sent
              \/ \E b \in batches : /\ ShipFails(b)
                                    /\ Sent \subseteq Sent' \cup {e.out : e \in b}
<1>1. ASSUME NEW j \in Jobs, Number(j) PROVE LinesOK' /\ ShippedOnce' /\ Sent' = Sent
  <2>1. PICK e : /\ buffer' = buffer \cup {e} /\ UNCHANGED <<batches, rows>>
                 /\ Entries' = Entries \cup {e}
                 /\ \A f \in Entries : f.out # e.out
                 /\ LinesOK' /\ Sent' = Sent
    BY <1>1, NumberEffect
  <2>2. e \notin Entries /\ rows \subseteq Entries /\ \A b \in batches : b \subseteq Entries
    BY <2>1 DEF Entries
  <2>3. (\A d, f \in Entries : d.out = f.out => d = f)'
    BY <2>1 DEF ShippedOnce
  <2>4. ShippedOnce'
    BY <2>1, <2>2, <2>3 DEF ShippedOnce
  <2> QED
    BY <2>1, <2>4
<1>2. ASSUME Flush \/ \E b \in batches : Ship(b)
      PROVE  LinesOK' /\ ShippedOnce' /\ Sent' = Sent
  <2>1. UNCHANGED <<logCh, reader>>
    BY <1>2 DEF Flush, Ship, streaming
  <2>2. Entries' = Entries
    BY <1>2 DEF Flush, Ship, Entries
  <2>3. \A j \in Jobs : Lines(j)' = Lines(j)
    BY <2>1 DEF Lines
  <2>4. Sent' = Sent
    BY <2>2, <2>3 DEF Sent
  <2>5. (\A o \in Sent : LineOK(o))'
    BY <2>1, <2>4 DEF LinesOK, LineOK, EndOf, EndsLine
  <2>6. LinesOK'
    BY <2>1, <2>2, <2>3, <2>5 DEF LinesOK
  <2> QED
    BY <1>2, <2>2, <2>4, <2>6, ShippedMoves
<1>3. ASSUME NEW b \in batches, ShipFails(b)
      PROVE  LinesOK' /\ ShippedOnce' /\ Sent \subseteq Sent' \cup {e.out : e \in b}
  <2>1. /\ UNCHANGED <<logCh, reader, buffer, rows>> /\ batches' = batches \ {b}
    BY <1>3 DEF ShipFails, streaming
  <2>2. Entries' \subseteq Entries /\ Entries \subseteq Entries' \cup b
    BY <2>1 DEF Entries
  <2>3. \A j \in Jobs : Lines(j)' = Lines(j)
    BY <2>1 DEF Lines
  <2>4. Sent' \subseteq Sent /\ Sent \subseteq Sent' \cup {e.out : e \in b}
    BY <2>2, <2>3 DEF Sent
  <2>5. (\A o \in Sent : LineOK(o))'
    BY <2>1, <2>4 DEF LinesOK, LineOK, EndOf, EndsLine
  <2>6. LinesOK'
    BY <2>1, <2>2, <2>3, <2>5 DEF LinesOK
  <2>7. ShippedOnce'
    BY <2>1, <2>2 DEF ShippedOnce
  <2> QED
    BY <2>4, <2>6, <2>7
<1> QED
  BY <1>1, <1>2, <1>3 DEF ShipStep
-----------------------------------------------------------------------------
(* Invariance.                                                             *)

(* What the proofs of the output properties carry from step to step.       *)
OutputIInv == TypeOK /\ ExecutorInv /\ ReadersOK /\ LinesOK /\ ShippedOnce

LEMMA OutputInit == Init => OutputIInv
<1>1. Init => ShippedOnce
  BY DEF Init, ShippedOnce, Entries
<1> QED
  BY <1>1, TypesInit, ExecutorInit, ReadersInit, LinesInit DEF OutputIInv

(* Outside the shipper nothing moves from one place to another.            *)
LEMMA ShippedStays ==
    ASSUME ShippedOnce, UNCHANGED <<buffer, batches, rows>>
    PROVE  ShippedOnce'
<1>1. Entries' = Entries
  BY DEF Entries
<1> QED
  BY <1>1, ShippedMoves

LEMMA OutputStep == OutputIInv /\ [Next]_vars => OutputIInv'
<1> SUFFICES ASSUME OutputIInv, [Next]_vars PROVE OutputIInv'
  OBVIOUS
<1>0. TypeOK /\ ExecutorInv /\ ReadersOK /\ LinesOK /\ ShippedOnce
  BY DEF OutputIInv
<1>1. ExecutorInv'
  BY <1>0, ExecutorStep
<1>2. ASSUME NEW j \in Jobs, MainStep(j) PROVE OutputIInv'
  <2>1. UNCHANGED <<buffer, batches, rows>>
    BY <1>2, MainMoves
  <2> QED
    BY <1>0, <1>1, <1>2, <2>1, MainTypes, ReadersMain, LinesMain, ShippedStays DEF OutputIInv
<1>3. ASSUME NEW j \in Jobs, WaitStep(j) PROVE OutputIInv'
  <2>1. UNCHANGED <<reader, logCh, buffer, batches, rows>>
    BY <1>3 DEF WaitStep, Exit, Wait, Forget, CloseLog, Advance, HandleResult, streaming, shipping
  <2> QED
    BY <1>0, <1>1, <1>3, <2>1, WaitTypes, ReadersOther, LinesWait, ShippedStays DEF OutputIInv
<1>4. ASSUME NEW j \in Jobs, NEW s \in Sources, PipeStep(j, s) PROVE OutputIInv'
  <2>1. UNCHANGED <<buffer, batches, rows>>
    BY <1>4 DEF PipeStep, Write, Read, ReadEnds, SkipBlank, SendLine, SendRest, SendPanics, Panic, shipping
  <2> QED
    BY <1>0, <1>1, <1>4, <2>1, PipeTypes, ReadersPipe, LinesPipe, ShippedStays DEF OutputIInv
<1>5. CASE ShipStep
  BY <1>0, <1>1, <1>5, ShipTypes, ReadersOther, LinesShip DEF OutputIInv
<1>6. CASE UNCHANGED vars
  <2>1. UNCHANGED <<cmd, limit, main, proc, active, wrote, reader, logCh, logSeq, buffer,
                    batches, rows, lost, reported, alive>>
    BY <1>6 DEF vars, streaming, shipping
  <2>2. TypeOK'
    BY <1>0, <2>1 DEF TypeOK
  <2> QED
    BY <1>0, <1>1, <2>1, <2>2, ReadersKept, LinesWait, ShippedStays DEF OutputIInv
<1> QED
  BY <1>2, <1>3, <1>4, <1>5, <1>6 DEF Next

THEOREM OutputInvariance == Spec => []OutputIInv
  BY OutputInit, OutputStep, PTL DEF Spec

(* Every variable keeps its type, and readers come and go with processes.  *)
THEOREM ExecutionTypes == Spec => []TypeOK
<1>1. OutputIInv => TypeOK
  BY DEF OutputIInv
<1> QED
  BY <1>1, OutputInvariance, PTL

(* However reads cut the text, a chunk in work holds a line that ends in   *)
(* it, and no line of a pipe is sent twice.                                *)
THEOREM LinesSentOnce == Spec => []OutputInv
<1>1. OutputIInv => OutputInv
  BY DEF OutputIInv, OutputInv
<1> QED
  BY <1>1, OutputInvariance, PTL

(* A line is in one place at a time and reaches the table once.            *)
THEOREM NeverShippedTwice == Spec => []ShippedOnce
<1>1. OutputIInv => ShippedOnce
  BY DEF OutputIInv
<1> QED
  BY <1>1, OutputInvariance, PTL
-----------------------------------------------------------------------------
(* Nothing vanishes.                                                       *)

(* What is written and accounted for.                                      *)
Found(j, s, n) == <<j, s, n>> \in lost \/ InReader(reader[j][s], n) \/ InSent(j, s, n)

(* What has been sent or lost stays so, unless a shipment fails.           *)
LEMMA SentStays ==
    ASSUME lost \subseteq lost', Sent \subseteq Sent', NEW j, NEW s, NEW n,
           <<j, s, n>> \in lost \/ InSent(j, s, n)
    PROVE  Found(j, s, n)'
<1>1. CASE <<j, s, n>> \in lost
  BY <1>1 DEF Found
<1>2. CASE InSent(j, s, n)
  <2>1. InSent(j, s, n)'
    BY <1>2 DEF InSent, Pieces
  <2> QED
    BY <2>1 DEF Found
<1> QED
  BY <1>1, <1>2

(* What all steps but those of the pipes do to a reader.                   *)
LEMMA ReaderStays ==
    ASSUME NEW j, NEW s, NEW n, Found(j, s, n), lost \subseteq lost', Sent \subseteq Sent',
           InReader(reader[j][s], n) => InReader(reader'[j][s], n)
    PROVE  Found(j, s, n)'
<1>1. CASE InReader(reader[j][s], n)
  <2>1. InReader(reader'[j][s], n) <=> InReader(reader[j][s], n)'
    BY DEF InReader, Unsent
  <2> QED
    BY <1>1, <2>1 DEF Found
<1>2. CASE ~InReader(reader[j][s], n)
  BY <1>2, SentStays DEF Found
<1> QED
  BY <1>1, <1>2

LEMMA FoundInit == Init => NoOutputVanishes
  BY DEF Init, NoOutputVanishes

(* A read takes pieces from the pipe to the chunk, or to "incomplete".     *)
LEMMA FoundRead ==
    ASSUME TypeOK, ReadersOK, NEW j \in Jobs, NEW s \in Sources, Read(j, s),
           NEW m \in Nat, InReader(reader[j][s], m)
    PROVE  InReader(reader'[j][s], m)
<1> DEFINE rd == reader[j][s]
<1>1. PICK n \in Nat, d \in Seq(Nat), r \in Reader :
            /\ n > rd.got /\ n <= wrote[j][s]
            /\ d = rd.incomplete \o [i \in 1 .. n - rd.got |-> rd.got + i]
            /\ r = Settled([rd EXCEPT !.got = n], d)
            /\ Becomes(j, s, r)
            /\ r.pc = "reading" /\ r.got = n
  BY ReadEffect
<1>2. /\ rd \in Reader /\ ReaderOK(rd) /\ rd.got \in Nat /\ rd.pc = "reading"
      /\ rd.data = <<>>
  BY PipeType, ReaderFields DEF ReadersOK, Read
<1>3. reader'[j][s] = r
  BY <1>1, ReaderUpdate
<1>4. /\ d # <<>>
      /\ \A i \in DOMAIN rd.incomplete : \E k \in DOMAIN d : d[k] = rd.incomplete[i]
      /\ \A i \in rd.got + 1 .. n : \E k \in DOMAIN d : d[k] = i
  <2> DEFINE e == rd.incomplete \o [i \in 1 .. n - rd.got |-> rd.got + i]
  <2>0. n > rd.got
    BY <1>1
  <2>1. e # <<>>
    BY <1>2, <2>0, ReadChunk
  <2>2. \A i \in DOMAIN rd.incomplete : \E k \in DOMAIN e : e[k] = rd.incomplete[i]
    BY <1>2, <2>0, ReadChunk
  <2>3. \A i \in rd.got + 1 .. n : \E k \in DOMAIN e : e[k] = i
    BY <1>2, <2>0, ReadChunk
  <2>4. d = e
    BY <1>1
  <2> HIDE DEF e
  <2> QED
    BY <2>1, <2>2, <2>3, <2>4
<1>5. Unsent(r) = d
  <2> DEFINE x == [rd EXCEPT !.got = n]
  <2>1. x \in Reader
    <3> HIDE DEF rd
    <3> QED
      BY <1>2 DEF Reader
  <2> HIDE DEF x
  <2>2. LET z == Settled(x, d) IN z.data = d \/ (z.data = <<>> /\ z.incomplete = d)
    BY <1>4, <2>1, SettledReader
  <2>3. r = Settled(x, d)
    BY <1>1 DEF x
  <2> QED
    BY <1>4, <2>2, <2>3 DEF Unsent
<1>6. m > rd.got \/ \E i \in DOMAIN rd.incomplete : rd.incomplete[i] = m
  BY <1>2 DEF InReader, Unsent
<1>7. m > n \/ \E k \in DOMAIN d : d[k] = m
  <2>1. m > n \/ m \in rd.got + 1 .. n \/ \E i \in DOMAIN rd.incomplete : rd.incomplete[i] = m
    BY <1>1, <1>2, <1>6
  <2> QED
    BY <1>4, <2>1
<1> QED
  BY <1>1, <1>3, <1>5, <1>7 DEF InReader

(* What is unread at the end is lost; what is incomplete is kept.          *)
LEMMA FoundReadEnds ==
    ASSUME TypeOK, ReadersOK, NEW j \in Jobs, NEW s \in Sources, ReadEnds(j, s),
           NEW m \in 1 .. wrote[j][s], InReader(reader[j][s], m)
    PROVE  <<j, s, m>> \in lost' \/ InReader(reader'[j][s], m)
<1> DEFINE rd == reader[j][s]
<1>1. PICK r \in Reader :
            /\ Becomes(j, s, r)
            /\ r.pc = (IF rd.incomplete = <<>> THEN "done" ELSE "rest")
            /\ r.got = rd.got /\ r.data = <<>> /\ r.incomplete = rd.incomplete
  BY ReadEndsEffect
<1>2. rd.got \in Nat /\ wrote[j][s] \in Nat /\ rd.pc = "reading" /\ rd.data = <<>>
  BY PipeType, ReaderFields DEF ReadEnds
<1>3. reader'[j][s] = r
  BY <1>1, ReaderUpdate
<1>4. CASE m > rd.got
  <2>1. m \in rd.got + 1 .. wrote[j][s]
    BY <1>2, <1>4
  <2> QED
    BY <2>1 DEF ReadEnds
<1>5. CASE \E i \in DOMAIN rd.incomplete : rd.incomplete[i] = m
  <2>1. rd.incomplete # <<>>
    BY <1>5, EmptySeq
  <2> QED
    BY <1>1, <1>3, <1>5, <2>1 DEF InReader, Unsent
<1> QED
  BY <1>2, <1>4, <1>5 DEF InReader, Unsent

(* The pieces of a line are in the line that is sent or lost, the others   *)
(* stay behind; a blank line has one piece, and that is bare.              *)
LEMMA FoundSend ==
    ASSUME TypeOK, ReadersOK, LinesOK, NEW j \in Jobs, NEW s \in Sources, TakeLine(j, s),
           NEW m, m \notin Bare, InReader(reader[j][s], m)
    PROVE  <<j, s, m>> \in lost' \/ InReader(reader'[j][s], m) \/ InSent(j, s, m)'
<1> DEFINE rd == reader[j][s]
<1>1. PICK c \in EndsLine(rd.data), r \in Reader, o \in Output :
            /\ o = [job |-> j, source |-> s, text |-> SubSeq(rd.data, 1, c)]
            /\ r = Settled(rd, SubSeq(rd.data, c + 1, Len(rd.data)))
            /\ Becomes(j, s, r)
            /\ r.pc = "reading" /\ r.got = rd.got
            /\ \/ Appends(j, o) /\ UNCHANGED lost
               \/ lost' = lost \cup Pieces(j, s, o.text) /\ UNCHANGED logCh
               \/ Blank(o.text)
  BY TakeLineEffect
<1>2. /\ rd \in Reader /\ ReaderOK(rd) /\ rd.pc = "reading" /\ rd.data # <<>>
  BY PipeType DEF ReadersOK, TakeLine, SkipBlank, SendLine, HasLine
<1> DEFINE line == SubSeq(rd.data, 1, c)
           rest == SubSeq(rd.data, c + 1, Len(rd.data))
<1>3. /\ rest \in Seq(Nat)
      /\ \A i \in DOMAIN rd.data : \/ \E k \in DOMAIN line : line[k] = rd.data[i]
                                   \/ \E k \in DOMAIN rest : rest[k] = rd.data[i]
  <2>1. c \in EndsLine(rd.data)
    BY <1>1
  <2> HIDE DEF rd
  <2> QED
    BY <1>2, <2>1, RestChunk
<1>4. o.job = j /\ o.source = s /\ o.text = line
  BY <1>1
<1>5. reader'[j][s] = r
  BY <1>1, ReaderUpdate
<1>6. (\E k \in DOMAIN rest : rest[k] = m) => InReader(r, m)
  <2> HIDE DEF rest
  <2>1. (\E k \in DOMAIN rest : rest[k] = m) => rest # <<>>
    BY EmptySeq
  <2>2. LET z == Settled(rd, rest) IN
          rest # <<>> => z.data = rest \/ (z.data = <<>> /\ z.incomplete = rest)
    BY <1>2, <1>3, SettledReader
  <2>3. r = Settled(rd, rest)
    BY <1>1 DEF rest
  <2>4. rest # <<>> => Unsent(r) = rest
    BY <2>2, <2>3 DEF Unsent
  <2> QED
    BY <1>1, <2>1, <2>4 DEF InReader
<1> HIDE DEF line, rest
<1>7. ASSUME \E k \in DOMAIN line : line[k] = m
      PROVE  <<j, s, m>> \in lost' \/ InSent(j, s, m)'
  <2>1. <<j, s, m>> \in Pieces(j, s, o.text)
    BY <1>4, <1>7 DEF Pieces
  <2>2. CASE lost' = lost \cup Pieces(j, s, o.text)
    BY <2>1, <2>2
  <2>3. CASE Appends(j, o)
    <3>1. o \in Sent'
      <4>1. logCh'[j] = Append(logCh[j], o) /\ logCh[j] \in Seq(Output)
        BY <2>3, LogUpdate DEF TypeOK
      <4>2. /\ Len(logCh[j]) + 1 \in DOMAIN logCh'[j]
            /\ logCh'[j][Len(logCh[j]) + 1] = o
        BY <4>1, AppendProperties, LenProperties
      <4>3. o \in Lines(j)'
        BY <4>2 DEF Lines
      <4> QED
        BY <4>3 DEF Sent
    <3> QED
      BY <1>4, <2>1, <3>1 DEF InSent, Pieces
  <2>4. ~Blank(o.text)
    <3>1. line \in Seq(Nat)
      BY <1>4 DEF Output
    <3>2. DOMAIN line = 1 .. Len(line)
      BY <3>1, LenProperties
    <3>3. ASSUME Blank(line) PROVE m = line[1] /\ line[1] \in Bare
      BY <1>7, <3>2, <3>3 DEF Blank
    <3> QED
      BY <1>4, <3>3
  <2> QED
    BY <1>1, <2>2, <2>3, <2>4
<1>8. m > rd.got \/ \E i \in DOMAIN rd.data : rd.data[i] = m
  BY <1>2 DEF InReader, Unsent
<1>9. CASE m > rd.got
  BY <1>1, <1>5, <1>9 DEF InReader
<1> QED
  BY <1>3, <1>5, <1>6, <1>7, <1>8, <1>9

LEMMA FoundRest ==
    ASSUME TypeOK, ReadersOK, NEW j \in Jobs, NEW s \in Sources, SendRest(j, s),
           NEW m, InReader(reader[j][s], m)
    PROVE  InSent(j, s, m)'
<1> DEFINE rd == reader[j][s]
<1>1. PICK o \in Output :
            /\ o = [job |-> j, source |-> s, text |-> rd.incomplete]
            /\ Appends(j, o)
  BY SendRestEffect
<1>2. rd.pc = "rest" /\ rd.data = <<>>
  BY DEF ReadersOK, ReaderOK, SendRest
<1>3. \E i \in DOMAIN rd.incomplete : rd.incomplete[i] = m
  BY <1>2 DEF InReader, Unsent
<1>4. o.job = j /\ o.source = s /\ o.text = rd.incomplete
  BY <1>1
<1>5. <<j, s, m>> \in Pieces(o.job, o.source, o.text)
  BY <1>3, <1>4 DEF Pieces
<1>6. o \in Sent'
  <2>1. logCh'[j] = Append(logCh[j], o) /\ logCh[j] \in Seq(Output)
    BY <1>1, LogUpdate DEF TypeOK
  <2>2. /\ Len(logCh[j]) + 1 \in DOMAIN logCh'[j]
        /\ logCh'[j][Len(logCh[j]) + 1] = o
    BY <2>1, AppendProperties, LenProperties
  <2>3. o \in Lines(j)'
    BY <2>2 DEF Lines
  <2> QED
    BY <2>3 DEF Sent
<1> QED
  BY <1>5, <1>6 DEF InSent, Pieces

(* A step of a pipe: the other pipes are left alone.                       *)
LEMMA FoundPipe ==
    ASSUME TypeOK, ReadersOK, LinesOK, NoOutputVanishes, alive,
           NEW j \in Jobs, NEW s \in Sources, PipeStep(j, s)
    PROVE  NoOutputVanishes'
<1>1. Sent \subseteq Sent' /\ lost \subseteq lost'
  <2>1. lost \subseteq lost'
    BY DEF PipeStep, Write, Read, ReadEnds, SkipBlank, SendLine, SendRest, SendPanics, Panic, shipping
  <2> QED
    BY <2>1, LinesPipe
<1>2. CASE alive' /\ Write(j, s)
  <2>1. UNCHANGED reader
    BY <1>2 DEF Write
  <2>2. ASSUME NEW l \in Jobs, NEW t \in Sources, NEW n \in 1 .. wrote'[l][t] \ Bare
        PROVE  Found(l, t, n)'
    <3>1. wrote[l][t] \in Nat
      BY PipeType
    <3>2. CASE n \in 1 .. wrote[l][t]
      <4>1. Found(l, t, n)
        BY <3>2 DEF NoOutputVanishes, Found
      <4> QED
        BY <1>1, <2>1, <4>1, ReaderStays
    <3>3. CASE n \notin 1 .. wrote[l][t]
      <4>1. l = j /\ t = s /\ n = wrote[j][s] + 1 /\ reader[j][s].pc = "reading"
        BY <1>2, <3>1, <3>3 DEF Write, TypeOK
      <4>2. reader[j][s].pc = "reading" /\ reader[j][s].got \in Nat
            /\ reader[j][s].got <= wrote[j][s] /\ wrote[j][s] \in Nat
        BY <4>1, PipeType, ReaderFields DEF ReadersOK
      <4>3. n > reader'[l][t].got /\ reader'[l][t].pc = "reading"
        BY <2>1, <4>1, <4>2
      <4> QED
        BY <4>3 DEF Found, InReader
    <3> QED
      BY <3>2, <3>3
  <2> QED
    BY <2>2 DEF NoOutputVanishes, Found
<1>3. CASE UNCHANGED wrote /\ ~SendPanics(j, s) /\ ~Write(j, s)
  <2>0. Read(j, s) \/ ReadEnds(j, s) \/ TakeLine(j, s) \/ SendRest(j, s)
    BY <1>3 DEF PipeStep, TakeLine
  <2>1. ASSUME NEW l \in Jobs, NEW t \in Sources, l # j \/ t # s
        PROVE  reader'[l][t] = reader[l][t]
    <3>1. \E r \in Reader : Becomes(j, s, r)
      <4>1. CASE Read(j, s)
        BY <4>1, ReadEffect
      <4>2. CASE ReadEnds(j, s)
        BY <4>2, ReadEndsEffect
      <4>3. CASE TakeLine(j, s)
        BY <4>3, TakeLineEffect
      <4>4. CASE SendRest(j, s)
        BY <4>4, SendRestEffect
      <4> QED
        BY <2>0, <4>1, <4>2, <4>3, <4>4
    <3> QED
      BY <2>1, <3>1, ReaderUpdate
  <2>2. ASSUME NEW l \in Jobs, NEW t \in Sources, NEW n \in 1 .. wrote[l][t] \ Bare
        PROVE  Found(l, t, n)'
    <3>1. Found(l, t, n)
      BY DEF NoOutputVanishes, Found
    <3>2. CASE l # j \/ t # s
      BY <1>1, <2>1, <3>1, <3>2, ReaderStays
    <3>3. CASE l = j /\ t = s /\ InReader(reader[j][s], n)
      <4>1. n \in Nat
        BY PipeType
      <4>2. <<j, s, n>> \in lost' \/ InReader(reader'[j][s], n) \/ InSent(j, s, n)'
        BY <2>0, <3>3, <4>1, FoundRead, FoundReadEnds, FoundSend, FoundRest
      <4>3. InReader(reader'[j][s], n) <=> InReader(reader[j][s], n)'
        BY DEF InReader, Unsent
      <4> QED
        BY <3>3, <4>2, <4>3 DEF Found
    <3>4. CASE ~InReader(reader[l][t], n)
      BY <1>1, <3>1, <3>4, SentStays DEF Found
    <3> QED
      BY <3>2, <3>3, <3>4
  <2>3. ASSUME NEW l \in Jobs, NEW t \in Sources, NEW n \in 1 .. wrote'[l][t] \ Bare
        PROVE  Found(l, t, n)'
    BY <1>3, <2>2
  <2> QED
    BY <2>3 DEF NoOutputVanishes, Found
<1>4. CASE ~alive'
  BY <1>4 DEF NoOutputVanishes
<1>5. SendPanics(j, s) => ~alive'
  BY DEF SendPanics, Panic
<1>6. UNCHANGED wrote \/ Write(j, s)
  BY DEF PipeStep, Read, ReadEnds, SkipBlank, SendLine, SendRest, SendPanics, Panic, streaming
<1> QED
  BY <1>2, <1>3, <1>4, <1>5, <1>6

(* The other steps, which leave the pipes alone.                           *)
LEMMA FoundOther ==
    ASSUME NoOutputVanishes, UNCHANGED <<wrote, alive>>, lost \subseteq lost', Sent \subseteq Sent',
           \A j \in Jobs : \A s \in Sources : \A n \in 1 .. wrote[j][s] :
              InReader(reader[j][s], n) => InReader(reader'[j][s], n)
    PROVE  NoOutputVanishes'
<1>1. ASSUME alive, NEW j \in Jobs, NEW s \in Sources, NEW n \in 1 .. wrote[j][s] \ Bare
      PROVE  Found(j, s, n)'
  <2>1. Found(j, s, n)
    BY <1>1 DEF NoOutputVanishes, Found
  <2> QED
    BY <2>1, ReaderStays
<1>2. ASSUME alive', NEW j \in Jobs, NEW s \in Sources, NEW n \in 1 .. wrote'[j][s] \ Bare
      PROVE  Found(j, s, n)'
  BY <1>1, <1>2
<1> QED
  BY <1>2 DEF NoOutputVanishes, Found

LEMMA FoundMain ==
    ASSUME TypeOK, LinesOK, NoOutputVanishes, NEW j \in Jobs, MainStep(j)
    PROVE  NoOutputVanishes'
<1>1. UNCHANGED <<wrote, alive, lost>> /\ Sent' = Sent
  BY LinesMain, MainMoves
<1>2. ASSUME NEW l \in Jobs, NEW s \in Sources, NEW n \in 1 .. wrote[l][s],
             InReader(reader[l][s], n)
      PROVE  InReader(reader'[l][s], n)
  <2>1. CASE UNCHANGED reader
    BY <1>2, <2>1
  <2>2. CASE ExecuteStart(j) /\ l = j
    <3> DEFINE rd == reader[j][s]
               rx == reader'[j][s]
    <3>1. proc[j] = "listed"
      BY <2>2 DEF ExecuteStart
    <3>2. rd.pc = "off" /\ rx = [rd EXCEPT !.pc = "reading"]
      BY <2>2, <3>1 DEF ExecuteStart, TypeOK
    <3>3. rx.got = rd.got /\ rx.data = rd.data /\ rx.incomplete = rd.incomplete
          /\ rx.pc = "reading"
      <4>1. \A x \in Reader : /\ [x EXCEPT !.pc = "reading"].got = x.got
                              /\ [x EXCEPT !.pc = "reading"].data = x.data
                              /\ [x EXCEPT !.pc = "reading"].incomplete = x.incomplete
                              /\ [x EXCEPT !.pc = "reading"].pc = "reading"
        BY DEF Reader
      <4>2. rd \in Reader
        BY PipeType
      <4> QED
        BY <3>2, <4>1, <4>2
    <3>4. InReader(rd, n)
      BY <1>2, <2>2
    <3> HIDE DEF rd, rx
    <3>5. InReader(rx, n)
      BY <3>2, <3>3, <3>4 DEF InReader, Unsent
    <3> QED
      BY <2>2, <3>5 DEF rx
  <2>3. CASE ExecuteStart(j) /\ l # j
    <3>1. reader'[l] = reader[l]
      BY <2>3 DEF ExecuteStart, TypeOK
    <3> QED
      BY <1>2, <3>1
  <2> QED
    BY <2>1, <2>2, <2>3, MainMoves
<1> QED
  BY <1>1, <1>2, FoundOther

(* A failed shipment is counted as lost, piece by piece.                   *)
LEMMA FoundShip ==
    ASSUME TypeOK, LinesOK, ShippedOnce, NoOutputVanishes, ShipStep
    PROVE  NoOutputVanishes'
<1>1. UNCHANGED <<wrote, reader, alive>> /\ lost \subseteq lost'
  BY DEF ShipStep, Number, Flush, Ship, ShipFails, streaming
<1>2. CASE Sent' = Sent
  BY <1>1, <1>2, FoundOther
<1>3. ASSUME NEW b \in batches, ShipFails(b), Sent \subseteq Sent' \cup {e.out : e \in b}
      PROVE  NoOutputVanishes'
  <2>1. ASSUME NEW j \in Jobs, NEW s \in Sources, NEW n, Found(j, s, n) PROVE Found(j, s, n)'
    <3>1. CASE <<j, s, n>> \in lost
      BY <1>1, <3>1 DEF Found
    <3>2. CASE InReader(reader[j][s], n)
      BY <1>1, <3>2 DEF Found, InReader, Unsent
    <3>3. CASE InSent(j, s, n)
      <4>1. PICK o \in Sent : <<j, s, n>> \in Pieces(o.job, o.source, o.text)
        BY <3>3 DEF InSent
      <4>2. CASE o \in Sent'
        BY <4>1, <4>2 DEF Found, InSent, Pieces
      <4>3. ASSUME NEW e \in b, o = e.out PROVE <<j, s, n>> \in lost'
        <5>1. \A p \in Pieces(e.out.job, e.out.source, e.out.text) : p \in lost'
          BY <1>3 DEF ShipFails
        <5> QED
          BY <4>1, <4>3, <5>1
      <4> QED
        BY <1>3, <4>2, <4>3 DEF Found
    <3> QED
      BY <2>1, <3>1, <3>2, <3>3 DEF Found
  <2>2. ASSUME alive, NEW j \in Jobs, NEW s \in Sources, NEW n \in 1 .. wrote[j][s] \ Bare
        PROVE  Found(j, s, n)
    BY <2>2 DEF NoOutputVanishes, Found
  <2>3. ASSUME alive', NEW j \in Jobs, NEW s \in Sources, NEW n \in 1 .. wrote'[j][s] \ Bare
        PROVE  Found(j, s, n)'
    BY <1>1, <2>1, <2>2, <2>3
  <2> QED
    BY <2>3 DEF NoOutputVanishes, Found
<1> QED
  BY <1>2, <1>3, LinesShip

LEMMA FoundStep == OutputIInv /\ NoOutputVanishes /\ [Next]_vars => NoOutputVanishes'
<1> SUFFICES ASSUME OutputIInv, NoOutputVanishes, [Next]_vars PROVE NoOutputVanishes'
  OBVIOUS
<1>0. TypeOK /\ ExecutorInv /\ ReadersOK /\ LinesOK /\ ShippedOnce
  BY DEF OutputIInv
<1>1. ASSUME NEW j \in Jobs, MainStep(j) PROVE NoOutputVanishes'
  BY <1>0, <1>1, FoundMain
<1>2. ASSUME NEW j \in Jobs, WaitStep(j) PROVE NoOutputVanishes'
  <2>1. UNCHANGED <<wrote, alive, lost, reader, logCh, buffer, batches, rows>>
    BY <1>2 DEF WaitStep, Exit, Wait, Forget, CloseLog, Advance, HandleResult, streaming, shipping
  <2>2. Sent' = Sent
    BY <1>0, <2>1, LinesWait
  <2> QED
    BY <2>1, <2>2, FoundOther
<1>3. ASSUME alive, NEW j \in Jobs, NEW s \in Sources, PipeStep(j, s) PROVE NoOutputVanishes'
  BY <1>0, <1>3, FoundPipe
<1>4. CASE ShipStep
  BY <1>0, <1>4, FoundShip
<1>5. CASE UNCHANGED vars
  <2>1. UNCHANGED <<wrote, alive, lost, reader, logCh, buffer, batches, rows>>
    BY <1>5 DEF vars, streaming, shipping
  <2>2. Sent' = Sent
    BY <1>0, <2>1, LinesWait
  <2> QED
    BY <2>1, <2>2, FoundOther
<1> QED
  BY <1>1, <1>2, <1>3, <1>4, <1>5 DEF Next

(* Whatever text a process writes is accounted for at every moment of its  *)
(* way from the pipe to the table, unless the client dies; only newlines   *)
(* of blank lines go without trace.                                        *)
THEOREM OutputIsAccountedFor == Spec => []NoOutputVanishes
  BY FoundInit, FoundStep, OutputInvariance, PTL DEF Spec
-----------------------------------------------------------------------------
(* Numbers.                                                                *)

(* No line overtakes another of its pipe on the way to streamLogs, and the *)
(* next number of a command is larger than those its lines carry.          *)
OrderOK ==
    \A j \in Jobs : \A i \in DOMAIN logCh[j] :
        /\ \A k \in DOMAIN logCh[j] : i < k => ~Before(logCh[j][k], logCh[j][i])
        /\ \A e \in Entries : ~Before(logCh[j][i], e.out)

NumbersOK == \A e \in Entries : AloneSoFar(e.out.job) => e.seq < logSeq[cmd[e.out.job]]

NumbersIInv == OrderOK /\ NumbersOK /\ NumberedInOrder

LEMMA NumbersInit == Init => NumbersIInv
<1> SUFFICES ASSUME Init PROVE NumbersIInv
  OBVIOUS
<1>1. Entries = {} /\ \A j \in Jobs : logCh[j] = <<>>
  BY DEF Init, Entries
<1>2. \A j \in Jobs : DOMAIN logCh[j] = {}
  BY <1>1, EmptySeq
<1> QED
  BY <1>1, <1>2 DEF NumbersIInv, OrderOK, NumbersOK, NumberedInOrder

LEMMA OrderKept ==
    ASSUME OrderOK, UNCHANGED logCh, Entries' \subseteq Entries
    PROVE  OrderOK'
  BY DEF OrderOK

(* A line that comes before none of those sent joins a channel.            *)
LEMMA OrderAppend ==
    ASSUME TypeOK, OrderOK, NEW j \in Jobs, NEW o \in Output, Appends(j, o),
           UNCHANGED <<buffer, batches, rows>>,
           \A p \in Sent : ~Before(o, p)
    PROVE  OrderOK'
<1> DEFINE q == logCh[j]
           n == Len(q)
<1>1. logCh'[j] = Append(q, o) /\ \A l \in Jobs \ {j} : logCh'[l] = logCh[l]
  BY LogUpdate
<1>2. q \in Seq(Output)
  BY DEF TypeOK
<1>3. /\ n \in Nat /\ DOMAIN q = 1 .. n /\ DOMAIN logCh'[j] = 1 .. n + 1
      /\ \A i \in 1 .. n : logCh'[j][i] = q[i]
      /\ logCh'[j][n + 1] = o
  BY <1>1, <1>2, AppendProperties, LenProperties
<1>4. Entries' = Entries
  BY DEF Entries
<1>5. /\ \A i \in 1 .. n : ~Before(o, q[i])
      /\ \A e \in Entries : ~Before(o, e.out)
  <2>1. \A i \in 1 .. n : q[i] \in Lines(j)
    BY <1>3 DEF Lines
  <2> QED
    BY <2>1, SentElements
<1> HIDE DEF n, q
<1>6. ASSUME NEW i \in 1 .. n + 1
      PROVE  /\ \A k \in 1 .. n + 1 : i < k => ~Before(logCh'[j][k], logCh'[j][i])
             /\ \A e \in Entries : ~Before(logCh'[j][i], e.out)
  <2>1. CASE i \in 1 .. n
    <3>1. /\ \A k \in 1 .. n : i < k => ~Before(q[k], q[i])
          /\ \A e \in Entries : ~Before(q[i], e.out)
      BY <1>3, <2>1 DEF OrderOK, q
    <3>2. \A k \in 1 .. n + 1 : k \in 1 .. n \/ k = n + 1
      BY <1>3
    <3> QED
      BY <1>3, <1>5, <2>1, <3>1, <3>2
  <2>2. CASE i = n + 1
    <3>1. \A k \in 1 .. n + 1 : ~(i < k)
      BY <1>3, <2>2
    <3> QED
      BY <1>3, <1>5, <2>2, <3>1
  <2>3. i \in 1 .. n \/ i = n + 1
    BY <1>3
  <2> QED
    BY <2>1, <2>2, <2>3
<1>7. ASSUME NEW l \in Jobs, NEW i \in DOMAIN logCh'[l]
      PROVE  /\ \A k \in DOMAIN logCh'[l] : i < k => ~Before(logCh'[l][k], logCh'[l][i])
             /\ \A e \in Entries : ~Before(logCh'[l][i], e.out)
  <2>1. CASE l = j
    BY <1>3, <1>6, <2>1
  <2>2. CASE l # j
    BY <1>1, <2>2 DEF OrderOK
  <2> QED
    BY <2>1, <2>2
<1> QED
  BY <1>4, <1>7 DEF OrderOK

(* A reader sends its lines in the order in which they end, and what has   *)
(* no newline last.                                                        *)
LEMMA OrderPipe ==
    ASSUME TypeOK, ReadersOK, LinesOK, OrderOK, NEW j \in Jobs, NEW s \in Sources, PipeStep(j, s)
    PROVE  OrderOK'
<1> DEFINE rd == reader[j][s]
<1>0. UNCHANGED <<buffer, batches, rows>> /\ Entries' = Entries
  BY DEF PipeStep, Write, Read, ReadEnds, SkipBlank, SendLine, SendRest, SendPanics, Panic, shipping, Entries
<1>1. CASE UNCHANGED logCh
  BY <1>0, <1>1, OrderKept
<1>2. CASE TakeLine(j, s)
  <2>1. PICK c \in EndsLine(rd.data), o \in Output :
              /\ o = [job |-> j, source |-> s, text |-> SubSeq(rd.data, 1, c)]
              /\ Appends(j, o) \/ UNCHANGED logCh
    BY <1>2, TakeLineEffect
  <2>2. rd \in Reader /\ ReaderOK(rd) /\ rd.pc = "reading" /\ rd.data \in Seq(Nat)
    BY <1>2, PipeType, ReaderFields DEF ReadersOK, TakeLine, SkipBlank, SendLine, HasLine
  <2>3. EndOf(SubSeq(rd.data, 1, c)) = rd.data[c]
    BY <2>2, RestChunk
  <2>4. o.job = j /\ o.source = s /\ EndOf(o.text) = rd.data[c] /\ rd.data[c] \in Nat
    BY <2>1, <2>2, <2>3, Chunk
  <2>5. ASSUME NEW p \in Sent, Before(o, p) PROVE FALSE
    <3>1. p \in Output /\ p.text \in Seq(Nat) /\ LineOK(p)
      BY SentType, OutputFields DEF LinesOK
    <3>2. p.job = j /\ p.source = s
      BY <2>4, <2>5 DEF Before
    <3>3. p.text # <<>> /\ EndOf(p.text) \in Newlines /\ EndOf(p.text) < rd.data[c]
      BY <2>2, <3>1, <3>2 DEF LineOK
    <3>4. EndOf(p.text) \in Nat
      BY <3>1, <3>3, Chunk DEF EndOf
    <3>5. rd.data[c] < EndOf(p.text)
      BY <2>4, <2>5, <3>3 DEF Before
    <3> QED
      BY <2>4, <3>3, <3>4, <3>5
  <2> QED
    BY <1>0, <1>1, <2>1, <2>5, OrderAppend
<1>3. CASE SendRest(j, s)
  <2>1. PICK o \in Output :
              /\ o = [job |-> j, source |-> s, text |-> rd.incomplete]
              /\ Appends(j, o)
    BY <1>3, SendRestEffect
  <2>2. /\ rd.incomplete \in Seq(Nat) /\ rd.incomplete # <<>> /\ EndsLine(rd.incomplete) = {}
    BY <1>3, PipeType, ReaderFields DEF ReadersOK, ReaderOK, SendRest
  <2>3. o.text = rd.incomplete
    BY <2>1
  <2>4. EndOf(o.text) \notin Newlines
    <3>1. Len(rd.incomplete) \in DOMAIN rd.incomplete
      BY <2>2, Chunk
    <3> QED
      BY <2>2, <2>3, <3>1 DEF EndOf, EndsLine
  <2>5. \A p \in Sent : ~Before(o, p)
    BY <2>4 DEF Before
  <2> QED
    BY <1>0, <2>1, <2>5, OrderAppend
<1> QED
  BY <1>1, <1>2, <1>3 DEF PipeStep, Write, Read, ReadEnds, TakeLine, SendPanics, Panic, streaming

(* The line that has waited longest gets the next number.                  *)
LEMMA OrderNumber ==
    ASSUME TypeOK, LinesOK, OrderOK, NEW j \in Jobs, Number(j)
    PROVE  LET e == [cmd |-> cmd[j], seq |-> logSeq[cmd[j]], out |-> Head(logCh[j])] IN
           /\ Entries' = Entries \cup {e}
           /\ e.out.job = j /\ \A f \in Entries : ~Before(e.out, f.out)
           /\ OrderOK'
<1> DEFINE e == [cmd |-> cmd[j], seq |-> logSeq[cmd[j]], out |-> Head(logCh[j])]
           q == logCh[j]
<1>1. /\ q # <<>> /\ buffer' = buffer \cup {e}
      /\ logCh' = [logCh EXCEPT ![j] = Tail(@)]
      /\ UNCHANGED <<batches, rows>>
  BY DEF Number
<1>2. q \in Seq(Output)
  BY DEF TypeOK
<1>3. /\ Len(q) \in Nat \ {0} /\ DOMAIN q = 1 .. Len(q)
      /\ Head(q) = q[1]
      /\ DOMAIN Tail(q) = 1 .. Len(q) - 1
      /\ \A i \in 1 .. Len(q) - 1 : Tail(q)[i] = q[i + 1]
  BY <1>1, <1>2, HeadTailProperties, LenProperties, EmptySeq
<1>4. logCh'[j] = Tail(q) /\ \A l \in Jobs \ {j} : logCh'[l] = logCh[l]
  BY <1>1 DEF TypeOK
<1>5. e.out = q[1]
  BY <1>3
<1> HIDE DEF e
<1>6. Entries' = Entries \cup {e}
  BY <1>1 DEF Entries
<1>7. 1 \in DOMAIN q /\ \A i \in 1 .. Len(q) - 1 : i + 1 \in DOMAIN q /\ 1 < i + 1
  BY <1>3
<1>8. e.out.job = j /\ \A f \in Entries : ~Before(e.out, f.out)
  BY <1>5, <1>7 DEF LinesOK, OrderOK
<1>9. ASSUME NEW i \in 1 .. Len(q) - 1
      PROVE  /\ \A k \in 1 .. Len(q) - 1 : i < k => ~Before(q[k + 1], q[i + 1])
             /\ \A f \in Entries \cup {e} : ~Before(q[i + 1], f.out)
  <2>1. \A k \in 1 .. Len(q) - 1 : i < k => i + 1 < k + 1
    BY <1>3
  <2> QED
    BY <1>5, <1>7, <2>1 DEF OrderOK
<1>10. ASSUME NEW l \in Jobs, NEW i \in DOMAIN logCh'[l]
       PROVE  /\ \A k \in DOMAIN logCh'[l] : i < k => ~Before(logCh'[l][k], logCh'[l][i])
              /\ \A f \in Entries \cup {e} : ~Before(logCh'[l][i], f.out)
  <2>1. CASE l = j
    <3> DEFINE t == Tail(q)
    <3>1. logCh'[l] = t /\ DOMAIN t = 1 .. Len(q) - 1 /\ i \in 1 .. Len(q) - 1
          /\ \A k \in 1 .. Len(q) - 1 : t[k] = q[k + 1]
      BY <1>3, <1>4, <2>1
    <3> HIDE DEF t, q
    <3> QED
      BY <1>9, <3>1
  <2>2. CASE l # j
    <3>1. logCh'[l] = logCh[l] /\ logCh[l][i].job = l
      BY <1>4, <2>2 DEF LinesOK
    <3>2. ~Before(logCh[l][i], e.out)
      BY <1>8, <2>2, <3>1 DEF Before
    <3> QED
      BY <3>1, <3>2 DEF OrderOK
  <2> QED
    BY <2>1, <2>2
<1>11. OrderOK'
  BY <1>6, <1>10 DEF OrderOK
<1> QED
  BY <1>6, <1>8, <1>11 DEF e

(* Whoever is alone has been so far.                                       *)
LEMMA AloneBefore ==
    ASSUME TypeOK, [Next]_vars
    PROVE  cmd' = cmd /\ \A j \in Jobs : AloneSoFar(j)' => AloneSoFar(j)
<1>1. /\ cmd' = cmd /\ reported \subseteq reported'
      /\ \A l \in Jobs : proc'[l] = "new" => proc[l] = "new" /\ (main = l => main' = l)
  <2>1. ASSUME NEW j \in Jobs, MainStep(j)
        PROVE  /\ cmd' = cmd /\ reported \subseteq reported'
               /\ \A l \in Jobs : proc'[l] = "new" => proc[l] = "new" /\ (main = l => main' = l)
    <3>1. CASE Handle(j)
      BY <3>1, JobAssumption DEF Handle, TypeOK
    <3>2. CASE ExecuteTest(j) \/ ExecuteInsert(j)
      BY <3>2 DEF ExecuteTest, ExecuteInsert, TypeOK
    <3>3. CASE ExecuteStart(j) \/ StartFails(j) \/ Refuse(j)
      BY <3>3 DEF ExecuteStart, StartFails, Refuse, TypeOK
    <3> QED
      BY <2>1, <3>1, <3>2, <3>3 DEF MainStep
  <2>2. ASSUME NEW j \in Jobs, WaitStep(j)
        PROVE  /\ cmd' = cmd /\ reported \subseteq reported' /\ main' = main
               /\ \A l \in Jobs : proc'[l] = "new" => proc[l] = "new"
    BY <2>2 DEF WaitStep, Exit, Wait, Forget, CloseLog, Advance, HandleResult, TypeOK
  <2>3. ASSUME NEW j \in Jobs, NEW s \in Sources, PipeStep(j, s)
        PROVE  UNCHANGED <<cmd, reported, main, proc>>
    BY <2>3 DEF PipeStep, Write, Read, ReadEnds, SkipBlank, SendLine, SendRest, SendPanics, Panic
  <2>4. ASSUME ShipStep
        PROVE  UNCHANGED <<cmd, reported, main, proc>>
    BY <2>4 DEF ShipStep, Number, Flush, Ship, ShipFails
  <2>5. CASE UNCHANGED vars
    BY <2>5 DEF vars
  <2> QED
    BY <2>1, <2>2, <2>3, <2>4, <2>5 DEF Next
<1> QED
  BY <1>1 DEF AloneSoFar

(* Nothing is numbered.                                                    *)
LEMMA NumbersKept ==
    ASSUME TypeOK, [Next]_vars, NumbersOK, NumberedInOrder, Entries' \subseteq Entries,
           \A e \in Entries : AloneSoFar(e.out.job)' =>
               logSeq'[cmd[e.out.job]] = logSeq[cmd[e.out.job]]
    PROVE  NumbersOK' /\ NumberedInOrder'
<1>1. \A e \in Entries : e.out.job \in Jobs
  BY SentType, OutputFields
<1>2. ASSUME NEW e \in Entries', AloneSoFar(e.out.job)'
      PROVE  AloneSoFar(e.out.job) /\ e.seq < logSeq'[cmd'[e.out.job]]
  BY <1>1, <1>2, AloneBefore DEF NumbersOK
<1> QED
  BY <1>2 DEF NumbersOK, NumberedInOrder

(* Numbering.                                                              *)
LEMMA NumbersNumber ==
    ASSUME TypeOK, LinesOK, NumbersIInv, [Next]_vars, NEW j \in Jobs, Number(j)
    PROVE  NumbersIInv'
<1> DEFINE e == [cmd |-> cmd[j], seq |-> logSeq[cmd[j]], out |-> Head(logCh[j])]
<1>1. /\ Entries' = Entries \cup {e}
      /\ e.out.job = j /\ \A f \in Entries : ~Before(e.out, f.out)
      /\ OrderOK'
  BY OrderNumber DEF NumbersIInv
<1>2. e.seq = logSeq[cmd[j]]
  OBVIOUS
<1> HIDE DEF e
<1>3. /\ logSeq \in [Commands -> Nat] /\ cmd \in [Jobs -> Commands] /\ cmd' = cmd
      /\ logSeq' = [logSeq EXCEPT ![cmd[j]] = @ + 1]
  BY DEF Number, TypeOK
<1>4. \A c \in Commands : logSeq[c] \in Nat /\ logSeq'[c] \in Nat /\ logSeq[c] <= logSeq'[c]
  BY <1>3
<1>5. logSeq'[cmd[j]] = logSeq[cmd[j]] + 1
  BY <1>3
<1>6. \A f \in Entries : f.out.job \in Jobs /\ f.seq \in Nat
  <2>1. \A f \in Entry : f.seq \in Nat
    BY DEF Entry
  <2> QED
    BY <2>1, SentType, OutputFields
<1>7. ASSUME NEW f \in Entries, AloneSoFar(f.out.job)'
      PROVE  AloneSoFar(f.out.job) /\ f.seq < logSeq[cmd[f.out.job]]
  BY <1>6, <1>7, AloneBefore DEF NumbersIInv, NumbersOK
<1>8. NumbersOK'
  <2>1. ASSUME NEW f \in Entries, AloneSoFar(f.out.job)'
        PROVE  f.seq < logSeq'[cmd[f.out.job]]
    <3>1. cmd[f.out.job] \in Commands
      BY <1>3, <1>6
    <3> QED
      BY <1>4, <1>6, <1>7, <2>1, <3>1
  <2>2. e.seq < logSeq'[cmd[e.out.job]]
    <3>1. logSeq[cmd[j]] \in Nat
      BY <1>3, <1>4
    <3> QED
      BY <1>1, <1>2, <1>5, <3>1
  <2> QED
    BY <1>1, <1>3, <2>1, <2>2 DEF NumbersOK
<1>9. NumberedInOrder'
  <2>1. ASSUME NEW f \in Entries, NEW g \in Entries, f # g, f.out.job = g.out.job,
               AloneSoFar(f.out.job)'
        PROVE  f.seq # g.seq /\ (Before(f.out, g.out) => f.seq < g.seq)
    BY <1>7, <2>1 DEF NumbersIInv, NumberedInOrder
  <2>2. ASSUME NEW f \in Entries, f.out.job = j, AloneSoFar(j)'
        PROVE  f.seq < e.seq /\ f.seq # e.seq /\ ~Before(e.out, f.out)
    <3>1. f.seq < e.seq
      BY <1>2, <1>7, <2>2
    <3>2. f.seq \in Nat /\ e.seq \in Nat
      BY <1>2, <1>3, <1>4, <1>6
    <3> QED
      BY <1>1, <3>1, <3>2
  <2>3. ASSUME NEW f \in Entries \cup {e}, NEW g \in Entries \cup {e}, f # g,
               f.out.job = g.out.job, AloneSoFar(f.out.job)'
        PROVE  f.seq # g.seq /\ (Before(f.out, g.out) => f.seq < g.seq)
    <3>1. CASE f \in Entries /\ g \in Entries
      BY <2>1, <2>3, <3>1
    <3>2. CASE f = e /\ g \in Entries
      BY <1>1, <2>2, <2>3, <3>2
    <3>3. CASE f \in Entries /\ g = e
      BY <1>1, <2>2, <2>3, <3>3
    <3> QED
      BY <2>3, <3>1, <3>2, <3>3
  <2> QED
    BY <1>1, <2>3 DEF NumberedInOrder
<1> QED
  BY <1>1, <1>8, <1>9 DEF NumbersIInv

(* A reset of the number of j's command: j has sent nothing yet, or is     *)
(* reported, and no other job of the command is alone any more.            *)
LEMMA NumbersReset ==
    ASSUME TypeOK, LinesOK, NumbersIInv, [Next]_vars, NEW j \in Jobs,
           Handle(j) \/ HandleResult(j)
    PROVE  NumbersIInv'
<1>1. UNCHANGED <<logCh, buffer, batches, rows>> /\ Entries' = Entries
  BY DEF Handle, HandleResult, streaming, shipping, Entries
<1>2. ASSUME NEW e \in Entries, AloneSoFar(e.out.job)'
      PROVE  logSeq'[cmd[e.out.job]] = logSeq[cmd[e.out.job]]
  <2> DEFINE i == e.out.job
  <2>1. i \in Jobs /\ e.out.source \in Sources /\ e.out \in Sent
    BY SentType, OutputFields
  <2>2. CASE cmd[i] # cmd[j]
    BY <2>1, <2>2 DEF Handle, HandleResult, TypeOK
  <2>3. CASE i = j
    <3>1. reader[j][e.out.source].pc # "off"
      BY <2>1, <2>3 DEF LinesOK, LineOK
    <3>2. proc[j] # "new"
      BY <2>1, <3>1 DEF TypeOK
    <3> QED
      BY <1>2, <2>3, <3>2 DEF Handle, HandleResult, AloneSoFar
  <2>4. CASE i # j /\ cmd[i] = cmd[j]
    <3>1. proc'[j] = "new" /\ main' # j
      BY <1>2, <2>1, <2>4, AloneBefore DEF AloneSoFar
    <3> QED
      BY <3>1 DEF Handle, HandleResult, TypeOK
  <2> QED
    BY <2>2, <2>3, <2>4
<1> QED
  BY <1>1, <1>2, NumbersKept, OrderKept DEF NumbersIInv

LEMMA NumbersStep == OutputIInv /\ NumbersIInv /\ [Next]_vars => NumbersIInv'
<1> SUFFICES ASSUME OutputIInv, NumbersIInv, [Next]_vars PROVE NumbersIInv'
  OBVIOUS
<1>0. TypeOK /\ ReadersOK /\ LinesOK
  BY DEF OutputIInv
<1>1. ASSUME UNCHANGED logSeq, Entries' \subseteq Entries, OrderOK' PROVE NumbersIInv'
  BY <1>0, <1>1, NumbersKept DEF NumbersIInv
<1>2. ASSUME UNCHANGED <<logSeq, logCh>>, Entries' \subseteq Entries PROVE NumbersIInv'
  BY <1>1, <1>2, OrderKept DEF NumbersIInv
<1>3. ASSUME NEW j \in Jobs, MainStep(j) PROVE NumbersIInv'
  <2>1. CASE Handle(j)
    BY <1>0, <2>1, NumbersReset
  <2>2. CASE UNCHANGED logSeq
    <3>1. UNCHANGED <<logCh, buffer, batches, rows>>
      BY <1>3, MainMoves
    <3> QED
      BY <1>2, <2>2, <3>1 DEF Entries
  <2> QED
    BY <1>3, <2>1, <2>2, MainMoves
<1>4. ASSUME NEW j \in Jobs, WaitStep(j) PROVE NumbersIInv'
  <2>1. CASE HandleResult(j)
    BY <1>0, <2>1, NumbersReset
  <2>2. CASE Exit(j) \/ Wait(j) \/ Forget(j) \/ CloseLog(j)
    BY <1>2, <2>2 DEF Exit, Wait, Forget, CloseLog, Advance, streaming, shipping, Entries
  <2> QED
    BY <1>4, <2>1, <2>2 DEF WaitStep
<1>5. ASSUME NEW j \in Jobs, NEW s \in Sources, PipeStep(j, s) PROVE NumbersIInv'
  <2>1. UNCHANGED logSeq /\ Entries' = Entries
    BY <1>5 DEF PipeStep, Write, Read, ReadEnds, SkipBlank, SendLine, SendRest, SendPanics, Panic, shipping,
                Entries
  <2>2. OrderOK'
    BY <1>0, <1>5, OrderPipe DEF NumbersIInv
  <2> QED
    BY <1>1, <2>1, <2>2
<1>6. CASE ShipStep
  <2>1. ASSUME NEW j \in Jobs, Number(j) PROVE NumbersIInv'
    BY <1>0, <2>1, NumbersNumber
  <2>2. CASE Flush
    BY <1>2, <2>2 DEF Flush, streaming, Entries
  <2>3. ASSUME NEW b \in batches, Ship(b) \/ ShipFails(b) PROVE NumbersIInv'
    <3>1. UNCHANGED <<logSeq, logCh>>
      BY <2>3 DEF Ship, ShipFails, streaming
    <3>2. Entries' \subseteq Entries
      BY <2>3 DEF Ship, ShipFails, Entries
    <3> QED
      BY <1>2, <3>1, <3>2
  <2> QED
    BY <1>6, <2>1, <2>2, <2>3 DEF ShipStep
<1>7. CASE UNCHANGED vars
  BY <1>2, <1>7 DEF vars, streaming, shipping, Entries
<1> QED
  BY <1>3, <1>4, <1>5, <1>6, <1>7 DEF Next

(* As long as its dispatch is the only one of its command that has been    *)
(* looked at, and before the result is reported, the lines of a command    *)
(* carry numbers of their own, in the order in which they end.             *)
THEOREM LinesNumberedInOrder == Spec => []NumberedInOrder
<1>1. NumbersIInv => NumberedInOrder
  BY DEF NumbersIInv
<1> QED
  BY <1>1, NumbersInit, NumbersStep, OutputInvariance, PTL DEF Spec
=============================================================================
