-------------------------- MODULE ProgramsProofs ---------------------------
(***************************************************************************)
(* Theorems about the programs of demo/ and perf/, for any bounds and any  *)
(* sizes, counts and lengths that their users, peers and servers choose.   *)
(***************************************************************************)
EXTENDS Programs, BigEndianProofs, SequenceTheorems, TLAPS

-----------------------------------------------------------------------------
(* demo/http_client: what holds at each step of main.                      *)

Steps == {H!main[i] : i \in DOMAIN H!main}

\* The step of main that waits for an operation
WaitsFor == [connect |-> 5, write |-> 9, read |-> 13, read_all |-> 18]

\* An operation is under way only while main waits for it.
OneOperation == op # Null => pc = WaitsFor[op]

\* main has constructed what the operations from here on use.
Constructed ==
  /\ pc > 2 => "client" \in H!Locals
  /\ pc > 7 => "req" \in H!Locals
  /\ pc > 11 => "res" \in H!Locals
  /\ pc > 16 => "data" \in H!Locals

\* After a failed operation main gets as far as the check of its result.
FailureIsSeen ==
  failed =>
    IF pc = 0 THEN code = 1
    ELSE result = "error" /\ op = Null /\ pc \in {5, 6, 9, 10, 13, 14, 18, 19}

\* The buffer has the size that atoi read; it is full when read_all succeeded.
BufferFills ==
  /\ pc > 15 => len # 0 /\ served.header # Null /\ len \in H!atoi(served.header)
  /\ pc > 16 => len > 0
  /\ pc \in {18, 19} /\ op = Null /\ result = "success" =>
       filled = len /\ len <= served.body
  /\ pc = 20 => filled = len /\ len <= served.body

\* Before main returns there is no output and no exit code.
NothingBeforeTheEnd == pc > 0 => code = Null /\ printed = Null

HttpTypes ==
  /\ H!TypeOK
  /\ served \in [header : Headers \cup {Null}, body : 0 .. MaxBody]
  /\ locals \in Seq(Steps)
  /\ len \in Int

HttpInv ==
  /\ HttpTypes /\ OneOperation /\ Constructed /\ FailureIsSeen /\ BufferFills
  /\ NothingBeforeTheEnd
  /\ H!PrintsWhatCame /\ H!ZeroMeansDone

-----------------------------------------------------------------------------
\* The text of main: which step is where.
LEMMA MainText ==
  /\ DOMAIN H!main = 1 .. 20 /\ Len(H!main) = 20
  /\ H!main[1] = "url" /\ H!main[2] = "client" /\ H!main[3] = "aio"
  /\ H!main[4] = "connect" /\ H!main[5] = "wait" /\ H!main[6] = "check"
  /\ H!main[7] = "req" /\ H!main[8] = "write" /\ H!main[9] = "wait"
  /\ H!main[10] = "check" /\ H!main[11] = "res" /\ H!main[12] = "read"
  /\ H!main[13] = "wait" /\ H!main[14] = "check" /\ H!main[15] = "length"
  /\ H!main[16] = "data" /\ H!main[17] = "read_all" /\ H!main[18] = "wait"
  /\ H!main[19] = "check" /\ H!main[20] = "print"
  BY DEF H!main

\* So main is at a step when pc is there.
LEMMA MainAt ==
  ASSUME HttpTypes
  PROVE  /\ pc \in 0 .. 20
         /\ H!At("url") <=> pc = 1
         /\ H!At("client") <=> pc = 2
         /\ H!At("aio") <=> pc = 3
         /\ H!At("connect") <=> pc = 4
         /\ H!At("wait") <=> pc \in {5, 9, 13, 18}
         /\ H!At("check") <=> pc \in {6, 10, 14, 19}
         /\ H!At("req") <=> pc = 7
         /\ H!At("write") <=> pc = 8
         /\ H!At("res") <=> pc = 11
         /\ H!At("read") <=> pc = 12
         /\ H!At("length") <=> pc = 15
         /\ H!At("data") <=> pc = 16
         /\ H!At("read_all") <=> pc = 17
         /\ H!At("print") <=> pc = 20
<1>1. pc \in 0 .. 20
  BY MainText DEF HttpTypes, H!TypeOK
<1> QED BY <1>1, MainText DEF H!At

\* An object is constructed after the others.
LEMMA LocalsGrow ==
  ASSUME locals \in Seq(Steps), NEW x \in Steps, locals' = Append(locals, x)
  PROVE  locals' \in Seq(Steps) /\ H!Locals' = H!Locals \cup {x}
<1>1. locals' \in Seq(Steps) /\ DOMAIN locals' = DOMAIN locals \cup {Len(locals) + 1}
  OBVIOUS
<1>2. \A i \in DOMAIN locals : locals'[i] = locals[i]
  OBVIOUS
<1>3. locals'[Len(locals) + 1] = x
  OBVIOUS
<1> QED BY <1>1, <1>2, <1>3 DEF H!Locals

\* Most steps leave the objects alone.
LEMMA LocalsStay ==
  ASSUME UNCHANGED locals
  PROVE  H!Locals' = H!Locals
  BY DEF H!Locals

\* The last object is destroyed first.
LEMMA LocalsShrink ==
  ASSUME locals \in Seq(Steps), locals # <<>>,
         locals' = SubSeq(locals, 1, Len(locals) - 1)
  PROVE  locals' \in Seq(Steps) /\ H!Locals' \subseteq H!Locals
<1>1. PICK n \in Nat : Len(locals) = n + 1
  <2>1. Len(locals) \in Nat \ {0}
    OBVIOUS
  <2> QED BY <2>1
<1>2. PICK s : s = SubSeq(locals, 1, n)
  OBVIOUS
<1>3. locals' = s
  BY <1>1, <1>2
<1>4. 1 \in 1 .. Len(locals) + 1 /\ n \in 1 - 1 .. Len(locals)
  BY <1>1
<1>5. /\ s \in Seq(Steps) /\ Len(s) = IF 1 <= n THEN n - 1 + 1 ELSE 0
      /\ \A i \in 1 .. n - 1 + 1 : s[i] = locals[1 + i - 1]
  BY <1>2, <1>4, SubSeqProperties
<1>6. Len(s) = n
  BY <1>5
<1>7. \A i \in 1 .. n : i \in 1 .. n - 1 + 1 /\ 1 + i - 1 = i
  OBVIOUS
<1>8. \A i \in 1 .. n : s[i] = locals[i]
  BY <1>5, <1>7
<1>9. DOMAIN s = 1 .. n /\ DOMAIN locals = 1 .. n + 1
  BY <1>1, <1>5, <1>6
<1> QED BY <1>3, <1>5, <1>8, <1>9 DEF H!Locals

\* Before the first step of main the invariant holds.
LEMMA HttpInit ==
  ASSUME H!Init
  PROVE  HttpInv
<1> USE HttpClientAssumption DEF H!Assumption
<1>1. locals \in Seq(Steps) /\ H!Locals = {}
  BY DEF H!Init, H!Locals
<1>2. HttpTypes
  <2>1. Len(H!main) = 20
    BY MainText
  <2>2. /\ pc = 1 /\ op = Null /\ result = "success" /\ filled = 0 /\ code = Null
        /\ len = 0 /\ failed = FALSE
        /\ served \in [header : Headers \cup {Null}, body : 0 .. MaxBody]
    BY DEF H!Init
  <2>3. H!TypeOK
    BY <1>1, <2>1, <2>2 DEF H!TypeOK
  <2> QED BY <1>1, <2>2, <2>3 DEF HttpTypes
<1> QED BY <1>2 DEF H!Init, HttpInv, OneOperation, Constructed, FailureIsSeen,
               BufferFills, NothingBeforeTheEnd, H!PrintsWhatCame, H!ZeroMeansDone

\* main constructs a local object.
LEMMA HttpConstruct ==
  ASSUME HttpInv, NEW x \in {"url", "client", "aio", "req", "res"}, H!Construct(x)
  PROVE  HttpInv'
<1> USE HttpClientAssumption DEF H!Assumption
<1>1. /\ pc \in 1 .. 19 /\ pc' = pc + 1 /\ pc \in {1, 2, 3, 7, 11}
      /\ x = "client" <=> pc = 2
      /\ x = "req" <=> pc = 7
      /\ x = "res" <=> pc = 11
  <2>1. H!At(x) /\ pc' = pc + 1
    BY DEF H!Construct, H!GoOn
  <2>2. HttpTypes
    BY DEF HttpInv
  <2> QED BY <2>1, <2>2, MainAt
<1>2. x \in Steps
  BY DEF H!Construct, H!At, Steps
<1>3. /\ locals' \in Seq(Steps) /\ H!Locals' = H!Locals \cup {x}
      /\ UNCHANGED <<served, op, result, conn, len, filled, printed, failed, code>>
  BY <1>2, LocalsGrow DEF HttpInv, HttpTypes, H!Construct, H!aio, H!buffer
<1>4. op = Null
  BY <1>1 DEF HttpInv, HttpTypes, H!TypeOK, OneOperation, WaitsFor, H!Uses
<1>5. HttpTypes'
  <2>1. Len(H!main) = 20 /\ pc' \in 0 .. 20
    BY <1>1, MainText
  <2> QED BY <1>2, <1>3, <1>4, <2>1 DEF HttpInv, HttpTypes, H!TypeOK, Steps
<1>6. Constructed'
  BY <1>1, <1>3 DEF HttpInv, Constructed
<1>7. FailureIsSeen' /\ BufferFills' /\ NothingBeforeTheEnd'
  BY <1>1, <1>3 DEF HttpInv, FailureIsSeen, BufferFills, NothingBeforeTheEnd
<1> QED BY <1>3, <1>4, <1>5, <1>6, <1>7
           DEF HttpInv, OneOperation, H!PrintsWhatCame, H!ZeroMeansDone

\* main leaves by an exception, with 1, before or after an operation.
LEMMA HttpLeaves ==
  ASSUME HttpInv, H!Leave(1), pc # 0, op = Null,
         UNCHANGED <<served, locals, op, result, conn, filled, printed, failed>>,
         len' \in Int
  PROVE  HttpInv'
<1> USE HttpClientAssumption DEF H!Assumption
<1>1. pc' = 0 /\ code' = 1 /\ printed = Null /\ pc > 0
  BY DEF H!Leave, HttpInv, HttpTypes, H!TypeOK, NothingBeforeTheEnd
<1>2. HttpTypes'
  <2>1. Len(H!main) = 20
    BY MainText
  <2> QED BY <1>1, <2>1, LocalsStay DEF HttpInv, HttpTypes, H!TypeOK
<1> QED BY <1>1, <1>2 DEF HttpInv, OneOperation, Constructed, FailureIsSeen,
               BufferFills, NothingBeforeTheEnd, H!PrintsWhatCame, H!ZeroMeansDone

\* main starts an operation: its objects are there, and main is at its wait.
LEMMA HttpArm ==
  ASSUME HttpInv, NEW o \in {"connect", "write", "read", "read_all"}, H!Arm(o)
  PROVE  HttpInv'
<1> USE HttpClientAssumption DEF H!Assumption
<1>1. /\ pc' = pc + 1 /\ pc' = WaitsFor[o] /\ pc \in {4, 8, 12, 17} /\ op' = o
  BY MainAt DEF HttpInv, H!Arm, H!GoOn, WaitsFor
<1>2. o # Null /\ o \in DOMAIN H!Uses
  BY DEF H!Uses
<1>3. UNCHANGED <<served, locals, result, conn, len, filled, printed, failed, code>>
  BY DEF H!Arm, H!buffer
<1>4. HttpTypes'
  <2>1. Len(H!main) = 20
    BY MainText
  <2>2. H!At("wait")'
    BY <1>1, MainText DEF H!At
  <2> QED BY <1>1, <1>2, <1>3, <2>1, <2>2, LocalsStay DEF HttpInv, HttpTypes, H!TypeOK
<1>5. OneOperation'
  BY <1>1 DEF OneOperation
<1>6. Constructed'
  BY <1>1, <1>3 DEF HttpInv, Constructed, H!Locals
<1>7. FailureIsSeen' /\ BufferFills' /\ NothingBeforeTheEnd'
  BY <1>1, <1>2, <1>3 DEF HttpInv, FailureIsSeen, BufferFills, NothingBeforeTheEnd
<1> QED BY <1>3, <1>4, <1>5, <1>6, <1>7 DEF HttpInv, H!PrintsWhatCame, H!ZeroMeansDone

\* main passes a wait, as the operation is complete.
LEMMA HttpWait ==
  ASSUME HttpInv, H!wait
  PROVE  HttpInv'
<1> USE HttpClientAssumption DEF H!Assumption
<1>1. pc' = pc + 1 /\ pc \in {5, 9, 13, 18} /\ op = Null
  BY MainAt DEF HttpInv, H!wait, H!GoOn
<1>2. UNCHANGED <<served, locals, op, result, conn, len, filled, printed, failed, code>>
  BY DEF H!wait, H!buffer, H!aio
<1>3. HttpTypes'
  <2>1. Len(H!main) = 20 /\ pc' \in 0 .. 20
    BY <1>1, MainText
  <2> QED BY <1>1, <1>2, <2>1, LocalsStay DEF HttpInv, HttpTypes, H!TypeOK
<1>4. Constructed'
  BY <1>1, <1>2 DEF HttpInv, Constructed, H!Locals
<1>5. FailureIsSeen' /\ BufferFills' /\ NothingBeforeTheEnd'
  BY <1>1, <1>2 DEF HttpInv, FailureIsSeen, BufferFills, NothingBeforeTheEnd
<1> QED BY <1>1, <1>2, <1>3, <1>4, <1>5
           DEF HttpInv, OneOperation, H!PrintsWhatCame, H!ZeroMeansDone

\* main looks at the result of an operation, and leaves when it failed.
LEMMA HttpCheck ==
  ASSUME HttpInv, H!check
  PROVE  HttpInv'
<1> USE HttpClientAssumption DEF H!Assumption
<1>1. pc \in {6, 10, 14, 19} /\ pc # 0
  BY MainAt DEF HttpInv, H!check
<1>2. UNCHANGED <<served, locals, op, result, conn, len, filled, printed, failed>>
  BY DEF H!check, H!buffer, H!aio
<1>3. op = Null
  BY <1>1 DEF HttpInv, HttpTypes, H!TypeOK, OneOperation, WaitsFor, H!Uses
<1>4. CASE result # "success"
  BY <1>1, <1>2, <1>3, <1>4, HttpLeaves DEF H!check, HttpInv, HttpTypes
<1>5. CASE result = "success"
  <2>1. pc' = pc + 1 /\ code' = code
    BY <1>5 DEF H!check, H!GoOn
  <2>2. HttpTypes'
    <3>1. Len(H!main) = 20 /\ pc' \in 0 .. 20
      BY <1>1, <2>1, MainText
    <3> QED BY <1>2, <1>3, <2>1, <3>1, LocalsStay DEF HttpInv, HttpTypes, H!TypeOK
  <2>3. Constructed'
    BY <1>1, <1>2, <2>1 DEF HttpInv, Constructed, H!Locals
  <2>4. FailureIsSeen' /\ BufferFills' /\ NothingBeforeTheEnd'
    BY <1>1, <1>2, <1>3, <1>5, <2>1
       DEF HttpInv, FailureIsSeen, BufferFills, NothingBeforeTheEnd
  <2> QED BY <1>2, <1>3, <2>1, <2>2, <2>3, <2>4
             DEF HttpInv, OneOperation, H!PrintsWhatCame, H!ZeroMeansDone
<1> QED BY <1>4, <1>5

\* What atoi reads is an integer.
LEMMA AtoiReadsInts == ASSUME NEW h PROVE H!atoi(h) \subseteq Int
<1>1. H!int \subseteq Int
  BY HttpClientAssumption DEF H!Assumption, H!int
<1> QED BY <1>1 DEF H!atoi

\* main reads Content-Length, and leaves when there is none or atoi gives 0.
LEMMA HttpLength ==
  ASSUME HttpInv, H!length
  PROVE  HttpInv'
<1> USE HttpClientAssumption DEF H!Assumption
<1>1. pc = 15
  BY MainAt DEF HttpInv, HttpTypes, H!length
<1>2. UNCHANGED <<served, locals, op, result, conn, filled, printed, failed>>
  BY DEF H!length, H!aio
<1>3. op = Null /\ ~failed /\ printed = Null /\ code = Null /\ len \in Int
  BY <1>1 DEF HttpInv, HttpTypes, H!TypeOK, OneOperation, WaitsFor, H!Uses,
              FailureIsSeen, NothingBeforeTheEnd
<1>4. Len(H!main) = 20
  BY MainText
<1>5. CASE served.header = Null
  BY <1>1, <1>2, <1>3, <1>5, HttpLeaves DEF H!length
<1>6. CASE served.header # Null /\ len' = 0
  <2>1. pc' = 0 /\ code' = 0 /\ len' = 0 /\ len' \in H!atoi(served.header)
    BY <1>6 DEF H!length, H!Leave
  <2>2. HttpTypes'
    BY <1>2, <1>3, <1>4, <2>1, LocalsStay DEF HttpInv, HttpTypes, H!TypeOK
  <2>3. H!ZeroMeansDone'
    BY <1>2, <1>3, <1>6, <2>1 DEF H!ZeroMeansDone
  <2> QED BY <1>2, <1>3, <2>1, <2>2, <2>3
             DEF HttpInv, OneOperation, Constructed, FailureIsSeen, BufferFills,
                 NothingBeforeTheEnd, H!PrintsWhatCame
<1>7. CASE served.header # Null /\ len' # 0
  <2>1. pc' = 16 /\ code' = code /\ len' \in H!atoi(served.header)
    BY <1>1, <1>7 DEF H!length, H!GoOn
  <2>2. len' \in Int
    BY <2>1, AtoiReadsInts
  <2>3. HttpTypes'
    BY <1>1, <1>2, <1>3, <1>4, <2>1, <2>2, LocalsStay
       DEF HttpInv, HttpTypes, H!TypeOK
  <2>4. Constructed'
    BY <1>1, <1>2, <2>1, LocalsStay DEF HttpInv, Constructed
  <2>5. BufferFills'
    BY <1>2, <1>7, <2>1 DEF BufferFills
  <2> QED BY <1>2, <1>3, <2>1, <2>3, <2>4, <2>5
             DEF HttpInv, OneOperation, FailureIsSeen, NothingBeforeTheEnd,
                 H!PrintsWhatCame, H!ZeroMeansDone
<1> QED BY <1>5, <1>6, <1>7

\* main makes the buffer for the body.
LEMMA HttpData ==
  ASSUME HttpInv, H!Data
  PROVE  HttpInv'
<1> USE HttpClientAssumption DEF H!Assumption
<1>1. pc = 16 /\ pc' = 17 /\ len > 0
  BY MainAt DEF HttpInv, H!Data, H!GoOn
<1>2. "data" \in Steps
  BY DEF H!Data, H!At, Steps
<1>3. /\ locals' \in Seq(Steps) /\ H!Locals' = H!Locals \cup {"data"}
      /\ UNCHANGED <<served, op, result, conn, len, filled, printed, failed, code>>
  BY <1>2, LocalsGrow DEF HttpInv, HttpTypes, H!Data, H!aio, H!buffer
<1>4. op = Null
  BY <1>1 DEF HttpInv, HttpTypes, H!TypeOK, OneOperation, WaitsFor, H!Uses
<1>5. HttpTypes'
  <2>1. Len(H!main) = 20 /\ pc' \in 0 .. 20
    BY <1>1, MainText
  <2> QED BY <1>2, <1>3, <1>4, <2>1 DEF HttpInv, HttpTypes, H!TypeOK, Steps
<1>6. Constructed'
  BY <1>1, <1>3 DEF HttpInv, Constructed
<1>7. FailureIsSeen' /\ BufferFills' /\ NothingBeforeTheEnd'
  BY <1>1, <1>3 DEF HttpInv, FailureIsSeen, BufferFills, NothingBeforeTheEnd
<1> QED BY <1>3, <1>4, <1>5, <1>6, <1>7
           DEF HttpInv, OneOperation, H!PrintsWhatCame, H!ZeroMeansDone

\* main prints the buffer, which read_all filled.
LEMMA HttpPrint ==
  ASSUME HttpInv, H!print
  PROVE  HttpInv'
<1> USE HttpClientAssumption DEF H!Assumption
<1>1. /\ pc = 20 /\ pc' = 0 /\ code' = 0
      /\ printed' = [size |-> len, received |-> filled]
  BY MainAt DEF HttpInv, H!print, H!Leave
<1>2. UNCHANGED <<served, locals, op, result, conn, len, filled, failed>>
  BY DEF H!print, H!aio
<1>3. /\ op = Null /\ ~failed /\ filled = len /\ len # 0 /\ len <= served.body
      /\ served.header # Null /\ len \in H!atoi(served.header)
  BY <1>1 DEF HttpInv, HttpTypes, H!TypeOK, OneOperation, WaitsFor, H!Uses,
              FailureIsSeen, BufferFills
<1>4. /\ printed'.size = len /\ printed'.received = filled
      /\ printed' \in [size : Int, received : Int]
  BY <1>1, <1>3 DEF HttpInv, HttpTypes
<1>5. HttpTypes'
  <2>1. Len(H!main) = 20
    BY MainText
  <2> QED BY <1>1, <1>2, <1>3, <2>1, LocalsStay DEF HttpInv, HttpTypes, H!TypeOK
<1>6. H!PrintsWhatCame' /\ H!ZeroMeansDone'
  BY <1>1, <1>2, <1>3, <1>4, Zenon DEF H!PrintsWhatCame, H!ZeroMeansDone
<1> QED BY <1>1, <1>2, <1>3, <1>5, <1>6
           DEF HttpInv, OneOperation, Constructed, FailureIsSeen, BufferFills,
               NothingBeforeTheEnd

\* main has left, and a local object is destroyed.
LEMMA HttpDestroy ==
  ASSUME HttpInv, H!Destroy
  PROVE  HttpInv'
<1> USE HttpClientAssumption DEF H!Assumption
<1>1. /\ pc = 0 /\ pc' = 0
      /\ UNCHANGED <<served, result, conn, len, filled, printed, failed, code>>
      /\ locals' \in Seq(Steps) /\ H!Locals' \subseteq H!Locals
  BY LocalsShrink DEF HttpInv, HttpTypes, H!Destroy, H!buffer
<1>2. op = Null /\ op' = Null
  BY <1>1 DEF HttpInv, HttpTypes, H!TypeOK, OneOperation, WaitsFor, H!Uses, H!Destroy
<1>3. HttpTypes'
  BY <1>1, <1>2 DEF HttpInv, HttpTypes, H!TypeOK
<1> QED BY <1>1, <1>2, <1>3
           DEF HttpInv, OneOperation, Constructed, FailureIsSeen, BufferFills,
               NothingBeforeTheEnd, H!PrintsWhatCame, H!ZeroMeansDone

\* The operation under way completes, with success or not.
LEMMA HttpComplete ==
  ASSUME HttpInv, H!Complete
  PROVE  HttpInv'
<1> USE HttpClientAssumption DEF H!Assumption
<1>1. /\ op # Null /\ op' = Null /\ pc \in {5, 9, 13, 18}
      /\ op = "read_all" <=> pc = 18
      /\ UNCHANGED <<served, pc, locals, len, printed, code>>
  BY DEF HttpInv, HttpTypes, H!TypeOK, OneOperation, WaitsFor, H!Uses, H!Complete,
         H!Succeed, H!Fail
<1>2. printed = Null /\ code = Null /\ ~failed
  BY <1>1 DEF HttpInv, NothingBeforeTheEnd, FailureIsSeen
<1>3. \/ /\ result' = "success" /\ failed' = failed
         /\ filled' = IF pc = 18 THEN len ELSE filled
         /\ pc = 18 => served.body >= len
      \/ /\ result' = "error" /\ failed' = TRUE
         /\ pc = 18 => filled' \in 0 .. H!Received
         /\ pc # 18 => filled' = filled
  BY <1>1 DEF H!Complete, H!Succeed, H!Fail
<1>4. served.body \in 0 .. MaxBody /\ (pc = 18 => len > 0) /\ len \in Int
  BY DEF HttpInv, HttpTypes, BufferFills
<1>5. filled' \in 0 .. MaxBody
  BY <1>3, <1>4 DEF HttpInv, HttpTypes, H!TypeOK, H!Received
<1>6. HttpTypes'
  BY <1>1, <1>2, <1>3, <1>5, LocalsStay DEF HttpInv, HttpTypes, H!TypeOK
<1>7. Constructed' /\ NothingBeforeTheEnd' /\ OneOperation'
  BY <1>1, <1>2, LocalsStay DEF HttpInv, Constructed, NothingBeforeTheEnd, OneOperation
<1>8. FailureIsSeen' /\ BufferFills'
  BY <1>1, <1>2, <1>3, <1>4 DEF HttpInv, FailureIsSeen, BufferFills
<1> QED BY <1>1, <1>2, <1>6, <1>7, <1>8
           DEF HttpInv, H!PrintsWhatCame, H!ZeroMeansDone

\* HttpInv is inductive.
LEMMA HttpNext == HttpInv /\ [H!Next]_(H!vars) => HttpInv'
<1> SUFFICES ASSUME HttpInv, [H!Next]_(H!vars) PROVE HttpInv'
  OBVIOUS
<1>1. ASSUME NEW x \in {"url", "client", "aio", "req", "res", "data"},
             H!ConstructThrows(x)
      PROVE  HttpInv'
  <2>1. pc \in {1, 2, 3, 7, 11, 16} /\ pc # 0
    BY <1>1, MainAt DEF HttpInv, H!ConstructThrows
  <2>2. op = Null
    BY <2>1 DEF HttpInv, HttpTypes, H!TypeOK, OneOperation, WaitsFor, H!Uses
  <2> QED BY <1>1, <2>1, <2>2, HttpLeaves
             DEF H!ConstructThrows, H!aio, H!buffer, HttpInv, HttpTypes
<1>2. CASE H!Main
  BY <1>2, HttpConstruct, HttpArm, HttpWait, HttpCheck, HttpLength, HttpData,
     HttpPrint, HttpDestroy DEF H!Main
<1>3. CASE H!Complete
  BY <1>3, HttpComplete
<1>4. CASE UNCHANGED H!vars
  <2>1. /\ UNCHANGED <<served, pc, locals, op, result, conn, len, filled>>
        /\ UNCHANGED <<printed, failed, code>>
    BY <1>4 DEF H!vars, H!aio, H!buffer
  <2>2. H!At("wait")' <=> H!At("wait")
    BY <2>1 DEF H!At
  <2>3. HttpTypes'
    BY <2>1, <2>2, LocalsStay DEF HttpInv, HttpTypes, H!TypeOK
  <2> QED BY <2>1, <2>3, LocalsStay
             DEF HttpInv, OneOperation, Constructed, FailureIsSeen, BufferFills,
                 NothingBeforeTheEnd, H!PrintsWhatCame, H!ZeroMeansDone
<1> QED BY <1>1, <1>2, <1>3, <1>4 DEF H!Next, H!Throws

\* HttpInv says that every operation finds its objects.
LEMMA HttpObjects == HttpInv => H!ObjectsOutliveOperations
<1> SUFFICES ASSUME HttpInv, op # Null PROVE H!Uses[op] \subseteq H!Locals
  BY DEF H!ObjectsOutliveOperations
<1>1. op \in {"connect", "write", "read", "read_all"} /\ pc = WaitsFor[op]
  BY DEF HttpInv, HttpTypes, H!TypeOK, OneOperation, H!Uses
<1> QED BY <1>1 DEF HttpInv, Constructed, WaitsFor, H!Uses

-----------------------------------------------------------------------------
(* perf/: messages and counts.                                             *)

PerfTypes == P!TypeOK /\ test \in {"latency", "throughput"}

\* A latency test has no synchronization and no completion, and no message
\* before the client has dialed.
LatencySteps ==
  test = "latency" =>
    /\ server # "sync" /\ client \notin {"sync", "completion"}
    /\ client = "start" /\ server \notin P!Ended =>
         up = <<>> /\ down = <<>> /\ server # "reply"

\* What the server received, with the synchronization message of a throughput
\* test, and what the client sent
Received ==
  got + IF test = "throughput" /\ server \notin {"start", "sync"} THEN 1 ELSE 0
SentInAll ==
  sent + IF test = "throughput" /\ client \notin {"start", "sync"} THEN 1 ELSE 0

\* Messages may be lost, but come from the client.
NoMoreThanSent ==
  server \notin {"failed", "died"} => Received + Len(up) <= SentInAll

LoopIsComplete == server \in {"drain", "closed"} => got = arg.server.count

PerfInv ==
  /\ PerfTypes /\ LatencySteps /\ NoMoreThanSent /\ LoopIsComplete
  /\ P!OneMessage

\* A queue that a message leaves
LEMMA QueueTail ==
  ASSUME NEW S, NEW q \in Seq(S), q # <<>>
  PROVE  /\ Len(q) \in Nat \ {0} /\ Head(q) \in S
         /\ Tail(q) \in Seq(S) /\ Len(Tail(q)) = Len(q) - 1
  OBVIOUS

\* A queue that a message enters
LEMMA QueueAppend ==
  ASSUME NEW S, NEW q \in Seq(S), NEW e \in S
  PROVE  /\ Len(q) \in Nat
         /\ Append(q, e) \in Seq(S) /\ Len(Append(q, e)) = Len(q) + 1
  OBVIOUS

\* The variables of Perf, as numbers and queues.
LEMMA PerfVars ==
  ASSUME PerfInv
  PROVE  /\ got \in Nat /\ sent \in Nat
         /\ up \in Seq(MsgSizes \cup {0}) /\ down \in Seq(MsgSizes \cup {0})
         /\ Len(up) \in Nat /\ Len(down) \in Nat
         /\ arg.server.count \in Nat /\ arg.client.count \in Nat
         /\ arg.server.msgsize \in MsgSizes /\ arg.client.msgsize \in MsgSizes
         /\ Cap \in Nat \ {0}
<1>1. arg \in [server : P!Arguments, client : P!Arguments]
  BY DEF PerfInv, PerfTypes, P!TypeOK
<1>2. /\ arg.server \in [msgsize : MsgSizes, count : 0 .. MaxCount]
      /\ arg.client \in [msgsize : MsgSizes, count : 0 .. MaxCount]
  BY <1>1 DEF P!Arguments
<1>3. up \in Seq(MsgSizes \cup {0}) /\ down \in Seq(MsgSizes \cup {0})
  BY DEF PerfInv, PerfTypes, P!TypeOK
<1>4. Len(up) \in Nat /\ Len(down) \in Nat
  BY <1>3
<1>5. Cap \in Nat \ {0} /\ MaxCount \in Nat
  BY PerfAssumption DEF P!Assumption
<1>6. got \in 0 .. arg.server.count /\ sent \in 0 .. arg.client.count
  BY DEF PerfInv, PerfTypes, P!TypeOK
<1> QED BY <1>2, <1>3, <1>4, <1>5, <1>6

\* Before the programs start the invariant holds.
LEMMA PerfInit ==
  ASSUME P!Init
  PROVE  PerfInv
<1> USE PerfAssumption DEF P!Assumption
<1>1. arg \in [server : P!Arguments, client : P!Arguments]
  BY DEF P!Init
<1>2. /\ arg.server \in [msgsize : MsgSizes, count : 0 .. MaxCount]
      /\ arg.client \in [msgsize : MsgSizes, count : 0 .. MaxCount]
  BY <1>1 DEF P!Arguments
<1>3. /\ server = "start" /\ client = "start" /\ got = 0 /\ sent = 0 /\ up = <<>>
      /\ down = <<>> /\ perf_main = "run" /\ test \in {"latency", "throughput"}
  BY DEF P!Init
<1>4. <<>> \in Seq(MsgSizes \cup {0}) /\ Len(<<>>) = 0
  OBVIOUS
<1>5. PerfTypes
  BY <1>1, <1>2, <1>3, <1>4 DEF PerfTypes, P!TypeOK
<1> QED BY <1>3, <1>4, <1>5 DEF PerfInv, LatencySteps, NoMoreThanSent, Received,
      SentInAll, LoopIsComplete, P!OneMessage, P!Ended

\* The server listens.
LEMMA PerfListen ==
  ASSUME PerfInv, P!Listen
  PROVE  PerfInv'
<1>1. /\ UNCHANGED <<test, deploy, timely, arg, got, client, sent, up, down, perf_main>>
      /\ server = "start"
      /\ server' = IF test = "throughput" THEN "sync" ELSE "loop"
  BY DEF P!Listen, P!ServerAt, P!inputs
<1>2. PerfTypes'
  BY <1>1 DEF PerfInv, PerfTypes, P!TypeOK, P!Arguments
<1>3. LatencySteps' /\ LoopIsComplete'
  BY <1>1 DEF PerfInv, LatencySteps, LoopIsComplete,
              P!Ended
<1>4. NoMoreThanSent'
  BY <1>1, PerfVars DEF PerfInv, NoMoreThanSent, Received, SentInAll
<1>5. P!OneMessage'
  BY <1>1, PerfVars DEF PerfInv, P!OneMessage, P!Ended
<1> QED BY <1>2, <1>3, <1>4, <1>5 DEF PerfInv

\* The server takes the synchronization message from the queue.
LEMMA PerfServerSync ==
  ASSUME PerfInv, P!ServerSync
  PROVE  PerfInv'
<1>1. /\ UNCHANGED <<test, deploy, timely, arg, got, client, sent, down, perf_main>>
      /\ server = "sync" /\ server' = "loop"
      /\ up # <<>> /\ up' = Tail(up)
  BY DEF P!ServerSync, P!ServerAt, P!inputs
<1>2. /\ Len(up') = Len(up) - 1 /\ up' \in Seq(MsgSizes \cup {0})
      /\ Len(up) \in Nat /\ Len(up') \in Nat
  BY <1>1, PerfVars, QueueTail
<1>3. PerfTypes'
  BY <1>1, <1>2, PerfVars DEF PerfInv, PerfTypes, P!TypeOK, P!Arguments
<1>4. test = "throughput"
  BY <1>1 DEF PerfInv, PerfTypes, LatencySteps
<1>5. LatencySteps' /\ LoopIsComplete' /\ P!OneMessage'
  BY <1>1, <1>4 DEF PerfInv, LatencySteps, LoopIsComplete, P!OneMessage, P!Ended
<1>6. NoMoreThanSent'
  BY <1>1, <1>2, <1>4, PerfVars DEF PerfInv, NoMoreThanSent, Received, SentInAll
<1> QED BY <1>3, <1>5, <1>6 DEF PerfInv

\* The server takes a message of the loop, and counts it.
LEMMA PerfServerRecv ==
  ASSUME PerfInv, P!ServerRecv
  PROVE  PerfInv'
<1>1. /\ UNCHANGED <<test, deploy, timely, arg, client, sent, down, perf_main>>
      /\ server = "loop" /\ got < arg.server.count
      /\ up # <<>> /\ up' = Tail(up)
      /\ \/ server' = "died" /\ got' = got
         \/ /\ got' = got + 1
            /\ server' = IF test = "latency" THEN "reply" ELSE "loop"
  BY DEF P!ServerRecv, P!ServerAt, P!inputs
<1>2. /\ Len(up') = Len(up) - 1 /\ up' \in Seq(MsgSizes \cup {0})
      /\ Len(up) \in Nat \ {0} /\ Len(up') \in Nat
  BY <1>1, PerfVars, QueueTail
<1>3. got' \in 0 .. arg.server.count
  BY <1>1, PerfVars
<1>4. PerfTypes'
  BY <1>1, <1>2, <1>3, PerfVars DEF PerfInv, PerfTypes, P!TypeOK, P!Arguments, P!Ended
<1>5. LatencySteps'
  BY <1>1, <1>2 DEF PerfInv, LatencySteps, P!Ended
<1>6. LoopIsComplete'
  BY <1>1 DEF PerfInv, LoopIsComplete, P!Ended
<1>7. P!OneMessage'
  <2>1. SUFFICES ASSUME timely, test = "latency", client \in {"loop", "reply"},
                        server' = "reply"
                 PROVE  (IF client = "loop" THEN 1 ELSE 0) + Len(up') + 1 + Len(down) = 1
    BY <1>1 DEF P!OneMessage, P!Ended
  <2>2. (IF client = "loop" THEN 1 ELSE 0) + Len(up) + 0 + Len(down) = 1
    BY <1>1, <2>1 DEF PerfInv, P!OneMessage, P!Ended
  <2> QED BY <1>2, <2>2, PerfVars
<1>8. NoMoreThanSent'
  BY <1>1, <1>2, PerfVars DEF PerfInv, NoMoreThanSent, Received, SentInAll
<1> QED BY <1>4, <1>5, <1>6, <1>7, <1>8 DEF PerfInv

\* The latency server passes the message on.
LEMMA PerfServerReply ==
  ASSUME PerfInv, P!ServerReply
  PROVE  PerfInv'
<1>1. /\ UNCHANGED <<test, deploy, timely, arg, got, client, sent, up, perf_main>>
      /\ server = "reply" /\ server' = "loop"
      /\ Len(down) < Cap /\ down' = Append(down, arg.server.msgsize)
  BY DEF P!ServerReply, P!ServerAt, P!inputs
<1>2. /\ Len(down') = Len(down) + 1 /\ down' \in Seq(MsgSizes \cup {0})
      /\ Len(down) \in Nat /\ Len(down') <= Cap
  BY <1>1, PerfVars, QueueAppend
<1>3. PerfTypes'
  BY <1>1, <1>2, PerfVars DEF PerfInv, PerfTypes, P!TypeOK, P!Arguments
<1>4. LatencySteps'
  BY <1>1 DEF PerfInv, LatencySteps, P!Ended
<1>5. LoopIsComplete'
  BY <1>1 DEF PerfInv, LoopIsComplete, P!Ended
<1>6. P!OneMessage'
  <2>1. SUFFICES ASSUME timely, test = "latency", client \in {"loop", "reply"}
                 PROVE  (IF client = "loop" THEN 1 ELSE 0) + Len(up) + 0 + Len(down') = 1
    BY <1>1 DEF P!OneMessage, P!Ended
  <2>2. (IF client = "loop" THEN 1 ELSE 0) + Len(up) + 1 + Len(down) = 1
    BY <1>1, <2>1 DEF PerfInv, P!OneMessage, P!Ended
  <2>3. Len(up) \in Nat /\ Len(down) \in Nat
    BY PerfVars
  <2>4. client # "loop" /\ Len(up) = 0 /\ Len(down) = 0
    BY <2>2, <2>3
  <2>5. Len(down') = 1
    BY <1>2, <2>4
  <2> QED BY <2>4, <2>5
<1>7. NoMoreThanSent'
  BY <1>1, <1>2, PerfVars DEF PerfInv, NoMoreThanSent, Received, SentInAll
<1> QED BY <1>3, <1>4, <1>5, <1>6, <1>7 DEF PerfInv

\* The server leaves its loop, with all messages received.
LEMMA PerfServerComplete ==
  ASSUME PerfInv, P!ServerComplete
  PROVE  PerfInv'
<1>1. /\ UNCHANGED <<test, deploy, timely, arg, got, client, sent, up, perf_main>>
      /\ server = "loop" /\ server' = "drain" /\ got = arg.server.count
      /\ \/ test = "throughput" /\ Len(down) < Cap /\ down' = Append(down, 0)
         \/ test # "throughput" /\ down' = down
  BY DEF P!ServerComplete, P!ServerAt, P!inputs
<1>2. down' \in Seq(MsgSizes \cup {0}) /\ Len(down') <= Cap
  <2>1. Len(down) <= Cap
    BY DEF PerfInv, PerfTypes, P!TypeOK
  <2>2. /\ Len(Append(down, 0)) = Len(down) + 1
        /\ Append(down, 0) \in Seq(MsgSizes \cup {0})
    BY PerfVars, QueueAppend
  <2> QED BY <1>1, <2>1, <2>2, PerfVars
<1>3. PerfTypes'
  BY <1>1, <1>2, PerfVars DEF PerfInv, PerfTypes, P!TypeOK, P!Arguments
<1>4. LatencySteps' /\ P!OneMessage'
  BY <1>1 DEF PerfInv, LatencySteps, P!OneMessage, P!Ended
<1>5. LoopIsComplete'
  BY <1>1 DEF PerfInv, LoopIsComplete, P!Ended
<1>6. NoMoreThanSent'
  BY <1>1, PerfVars DEF PerfInv, NoMoreThanSent, Received, SentInAll
<1> QED BY <1>3, <1>4, <1>5, <1>6 DEF PerfInv

\* The server ends, on its way or by an exception; what it had not sent may be
\* lost.
LEMMA PerfServerEnds ==
  ASSUME PerfInv, P!ServerClose \/ P!ServerThrows
  PROVE  PerfInv'
<1>1. /\ UNCHANGED <<test, deploy, timely, arg, got, client, sent, up, perf_main>>
      /\ server \notin P!Ended /\ server' \in P!Ended
      /\ (server' = "closed" /\ server = "drain") \/ server' = "failed"
      /\ down' = down \/ down' = <<>>
  BY DEF P!ServerClose, P!ServerThrows, P!ServerAt, P!inputs, P!Left, P!Ended
<1>2. down' \in Seq(MsgSizes \cup {0}) /\ Len(down') <= Cap
  <2>1. Len(down) <= Cap
    BY DEF PerfInv, PerfTypes, P!TypeOK
  <2>2. <<>> \in Seq(MsgSizes \cup {0}) /\ Len(<<>>) <= Cap
    BY PerfVars
  <2> QED BY <1>1, <2>1, <2>2, PerfVars
<1>3. PerfTypes'
  BY <1>1, <1>2, PerfVars DEF PerfInv, PerfTypes, P!TypeOK, P!Arguments
<1>4. LatencySteps' /\ P!OneMessage'
  BY <1>1 DEF PerfInv, LatencySteps, P!OneMessage, P!Ended
<1>5. LoopIsComplete'
  BY <1>1 DEF PerfInv, LoopIsComplete, P!Ended
<1>6. NoMoreThanSent'
  BY <1>1, PerfVars DEF PerfInv, NoMoreThanSent, Received, SentInAll
<1> QED BY <1>3, <1>4, <1>5, <1>6 DEF PerfInv

\* No message is under way before the client dials.
LEMMA PerfDial ==
  ASSUME PerfInv, P!Dial
  PROVE  PerfInv'
<1>1. /\ UNCHANGED <<test, deploy, timely, arg, server, got, sent, up, down, perf_main>>
      /\ client = "start"
      /\ \/ client' = "failed"
         \/ /\ client' = IF test = "throughput" THEN "sync" ELSE "loop"
            /\ server \notin P!Ended
  BY DEF P!Dial, P!ClientAt, P!inputs, P!Listening
<1>2. PerfTypes'
  BY <1>1 DEF PerfInv, PerfTypes, P!TypeOK, P!Arguments, P!Ended
<1>3. LatencySteps' /\ LoopIsComplete'
  BY <1>1 DEF PerfInv, LatencySteps, LoopIsComplete
<1>4. NoMoreThanSent'
  BY <1>1, PerfVars DEF PerfInv, NoMoreThanSent, Received, SentInAll
<1>5. P!OneMessage'
  <2>1. SUFFICES ASSUME timely, test = "latency", client' = "loop", server \notin P!Ended
                 PROVE  1 + Len(up) + (IF server = "reply" THEN 1 ELSE 0) + Len(down) = 1
    BY <1>1 DEF P!OneMessage, PerfInv, PerfTypes
  <2>2. up = <<>> /\ down = <<>> /\ server # "reply"
    BY <1>1, <2>1 DEF PerfInv, LatencySteps
  <2>3. Len(<<>>) = 0
    OBVIOUS
  <2> QED BY <2>2, <2>3
<1> QED BY <1>2, <1>3, <1>4, <1>5 DEF PerfInv

\* The synchronization message is the first of a throughput test.
LEMMA PerfClientSync ==
  ASSUME PerfInv, P!ClientSync
  PROVE  PerfInv'
<1>1. /\ UNCHANGED <<test, deploy, timely, arg, server, got, sent, down, perf_main>>
      /\ client = "sync" /\ client' = "loop"
      /\ Len(up) < Cap /\ up' = Append(up, 0)
  BY DEF P!ClientSync, P!ClientAt, P!inputs
<1>2. /\ Len(up') = Len(up) + 1 /\ up' \in Seq(MsgSizes \cup {0})
      /\ Len(up) \in Nat /\ Len(up') <= Cap
  BY <1>1, PerfVars, QueueAppend
<1>3. PerfTypes'
  BY <1>1, <1>2, PerfVars DEF PerfInv, PerfTypes, P!TypeOK, P!Arguments
<1>4. test = "throughput"
  BY <1>1 DEF PerfInv, PerfTypes, LatencySteps
<1>5. LatencySteps' /\ LoopIsComplete' /\ P!OneMessage'
  BY <1>1, <1>4 DEF PerfInv, LatencySteps, LoopIsComplete, P!OneMessage
<1>6. NoMoreThanSent'
  BY <1>1, <1>2, <1>4, PerfVars DEF PerfInv, NoMoreThanSent, Received, SentInAll
<1> QED BY <1>3, <1>5, <1>6 DEF PerfInv

\* A message of the client's loop is counted when it is sent.
LEMMA PerfClientSend ==
  ASSUME PerfInv, P!ClientSend
  PROVE  PerfInv'
<1>1. /\ UNCHANGED <<test, deploy, timely, arg, server, got, down, perf_main>>
      /\ client = "loop" /\ client' = IF test = "latency" THEN "reply" ELSE "loop"
      /\ sent < arg.client.count /\ sent' = sent + 1
      /\ Len(up) < Cap /\ up' = Append(up, arg.client.msgsize)
  BY DEF P!ClientSend, P!ClientAt, P!inputs
<1>2. /\ Len(up') = Len(up) + 1 /\ up' \in Seq(MsgSizes \cup {0})
      /\ Len(up) \in Nat /\ Len(up') <= Cap
  BY <1>1, PerfVars, QueueAppend
<1>3. sent' \in 0 .. arg.client.count
  BY <1>1, PerfVars
<1>4. PerfTypes'
  BY <1>1, <1>2, <1>3, PerfVars DEF PerfInv, PerfTypes, P!TypeOK, P!Arguments
<1>5. LatencySteps' /\ LoopIsComplete'
  BY <1>1 DEF PerfInv, LatencySteps, LoopIsComplete
<1>6. NoMoreThanSent'
  BY <1>1, <1>2, PerfVars DEF PerfInv, NoMoreThanSent, Received, SentInAll
<1>7. P!OneMessage'
  <2>1. SUFFICES ASSUME timely, test = "latency", server \notin P!Ended
                 PROVE  0 + Len(up') + (IF server = "reply" THEN 1 ELSE 0) + Len(down) = 1
    BY <1>1 DEF P!OneMessage
  <2>2. 1 + Len(up) + (IF server = "reply" THEN 1 ELSE 0) + Len(down) = 1
    BY <1>1, <2>1 DEF PerfInv, P!OneMessage
  <2>3. Len(up) \in Nat /\ Len(down) \in Nat
    BY PerfVars
  <2>4. Len(up') = Len(up) + 1
    BY <1>2
  <2> QED BY <2>2, <2>3, <2>4
<1> QED BY <1>4, <1>5, <1>6, <1>7 DEF PerfInv

\* The reply ends a trip of the latency client.
LEMMA PerfClientRecv ==
  ASSUME PerfInv, P!ClientRecv
  PROVE  PerfInv'
<1>1. /\ UNCHANGED <<test, deploy, timely, arg, server, got, sent, up, perf_main>>
      /\ client = "reply" /\ client' = "loop"
      /\ down # <<>> /\ down' = Tail(down)
  BY DEF P!ClientRecv, P!ClientAt, P!inputs
<1>2. /\ Len(down') = Len(down) - 1 /\ down' \in Seq(MsgSizes \cup {0})
      /\ Len(down) \in Nat \ {0}
  BY <1>1, PerfVars, QueueTail
<1>3. PerfTypes'
  BY <1>1, <1>2, PerfVars DEF PerfInv, PerfTypes, P!TypeOK, P!Arguments
<1>4. LatencySteps' /\ LoopIsComplete'
  BY <1>1 DEF PerfInv, LatencySteps, LoopIsComplete
<1>5. NoMoreThanSent'
  BY <1>1, PerfVars DEF PerfInv, NoMoreThanSent, Received, SentInAll
<1>6. P!OneMessage'
  <2>1. SUFFICES ASSUME timely, test = "latency", server \notin P!Ended
                 PROVE  1 + Len(up) + (IF server = "reply" THEN 1 ELSE 0) + Len(down') = 1
    BY <1>1 DEF P!OneMessage
  <2>2. 0 + Len(up) + (IF server = "reply" THEN 1 ELSE 0) + Len(down) = 1
    BY <1>1, <2>1 DEF PerfInv, P!OneMessage
  <2>3. Len(up) \in Nat /\ Len(down) \in Nat
    BY PerfVars
  <2>4. Len(down') = Len(down) - 1
    BY <1>2
  <2> QED BY <2>2, <2>3, <2>4
<1> QED BY <1>3, <1>4, <1>5, <1>6 DEF PerfInv

\* The client leaves its loop.
LEMMA PerfClientLoopEnds ==
  ASSUME PerfInv, P!ClientLoopEnds
  PROVE  PerfInv'
<1>1. /\ UNCHANGED <<test, deploy, timely, arg, server, got, sent, up, down, perf_main>>
      /\ client = "loop"
      /\ client' = IF test = "latency" THEN "closed" ELSE "completion"
  BY DEF P!ClientLoopEnds, P!ClientAt, P!inputs
<1>2. PerfTypes'
  BY <1>1 DEF PerfInv, PerfTypes, P!TypeOK, P!Arguments, P!Ended
<1>3. LatencySteps' /\ LoopIsComplete' /\ P!OneMessage'
  BY <1>1 DEF PerfInv, LatencySteps, LoopIsComplete,
              P!OneMessage
<1>4. NoMoreThanSent'
  BY <1>1, PerfVars DEF PerfInv, NoMoreThanSent, Received, SentInAll
<1> QED BY <1>2, <1>3, <1>4 DEF PerfInv

\* The client ends, with the completion, without it, or by an exception; what
\* it had not sent may be lost.
LEMMA PerfClientEnds ==
  ASSUME PerfInv, P!ClientCompletion \/ P!ClientTimeout \/ P!ClientThrows
  PROVE  PerfInv'
<1>1. /\ UNCHANGED <<test, deploy, timely, arg, server, got, sent, perf_main>>
      /\ client' \in {"closed", "failed"}
      /\ up' = up \/ up' = <<>>
      /\ down' = down \/ (down # <<>> /\ down' = Tail(down))
  <2>1. CASE P!ClientCompletion
    BY <2>1 DEF P!ClientCompletion, P!ClientAt, P!inputs, P!Left
  <2>2. CASE P!ClientTimeout
    BY <2>2 DEF P!ClientTimeout, P!ClientAt, P!inputs
  <2>3. CASE P!ClientThrows
    BY <2>3 DEF P!ClientThrows, P!inputs
  <2> QED BY <2>1, <2>2, <2>3
<1>2. /\ up' \in Seq(MsgSizes \cup {0}) /\ Len(up') <= Len(up) /\ Len(up') \in Nat
      /\ Len(up') <= Cap
  <2>1. Len(up) <= Cap
    BY DEF PerfInv, PerfTypes, P!TypeOK
  <2>2. CASE up' = up
    BY <2>1, <2>2, PerfVars
  <2>3. CASE up' = <<>>
    <3>1. <<>> \in Seq(MsgSizes \cup {0}) /\ Len(<<>>) = 0
      OBVIOUS
    <3> QED BY <2>3, <3>1, PerfVars
  <2> QED BY <1>1, <2>2, <2>3
<1>3. down' \in Seq(MsgSizes \cup {0}) /\ Len(down') <= Cap
  <2>1. Len(down) <= Cap
    BY DEF PerfInv, PerfTypes, P!TypeOK
  <2>2. CASE down' = down
    BY <2>1, <2>2, PerfVars
  <2>3. CASE down # <<>> /\ down' = Tail(down)
    BY <2>1, <2>3, PerfVars, QueueTail
  <2> QED BY <1>1, <2>2, <2>3
<1>4. PerfTypes'
  BY <1>1, <1>2, <1>3, PerfVars DEF PerfInv, PerfTypes, P!TypeOK, P!Arguments, P!Ended
<1>5. LatencySteps' /\ LoopIsComplete' /\ P!OneMessage'
  BY <1>1 DEF PerfInv, LatencySteps, LoopIsComplete,
              P!OneMessage
<1>6. NoMoreThanSent'
  <2>1. SentInAll <= SentInAll'
    BY <1>1, PerfVars DEF SentInAll
  <2>2. Received' = Received
    BY <1>1 DEF Received
  <2>3. Received \in Nat /\ SentInAll \in Nat /\ SentInAll' \in Nat
    BY <1>1, PerfVars DEF Received, SentInAll
  <2> QED BY <1>1, <1>2, <2>1, <2>2, <2>3, PerfVars DEF PerfInv, NoMoreThanSent
<1> QED BY <1>4, <1>5, <1>6 DEF PerfInv

\* main returns, after the thread.
LEMMA PerfReturn ==
  ASSUME PerfInv, P!Return
  PROVE  PerfInv'
<1>1. /\ UNCHANGED <<test, deploy, timely, arg, server, got, client, sent, up, down>>
      /\ server = "closed" /\ perf_main' = "returned"
  BY DEF P!Return, P!inputs
<1>2. PerfTypes'
  BY <1>1 DEF PerfInv, PerfTypes, P!TypeOK, P!Arguments
<1>3. LatencySteps' /\ LoopIsComplete' /\ P!OneMessage'
  BY <1>1 DEF PerfInv, LatencySteps, LoopIsComplete,
              P!OneMessage, P!Ended
<1>4. NoMoreThanSent'
  BY <1>1 DEF PerfInv, NoMoreThanSent, Received, SentInAll
<1> QED BY <1>2, <1>3, <1>4 DEF PerfInv

\* PerfInv is inductive.
LEMMA PerfNext == PerfInv /\ [P!Next]_(P!vars) => PerfInv'
<1> SUFFICES ASSUME PerfInv, [P!Next]_(P!vars) PROVE PerfInv'
  OBVIOUS
<1>1. CASE P!ServerStep \/ P!ServerThrows
  BY <1>1, PerfListen, PerfServerSync, PerfServerRecv, PerfServerReply,
     PerfServerComplete, PerfServerEnds DEF P!ServerStep
<1>2. CASE P!ClientStep \/ P!ClientThrows
  BY <1>2, PerfDial, PerfClientSync, PerfClientSend, PerfClientRecv,
     PerfClientLoopEnds, PerfClientEnds DEF P!ClientStep
<1>3. CASE P!Return
  BY <1>3, PerfReturn
<1>4. CASE UNCHANGED P!vars
  <2>1. /\ UNCHANGED <<test, deploy, timely, arg, server, got, client, sent, up, down,
                       perf_main>>
    BY <1>4 DEF P!vars, P!inputs
  <2> QED BY <2>1 DEF PerfInv, PerfTypes, P!TypeOK, P!Arguments, LatencySteps,
             LoopIsComplete, NoMoreThanSent, Received, SentInAll, P!OneMessage
<1> QED BY <1>1, <1>2, <1>3, <1>4 DEF P!Next

\* What the server received came from the client, so PerfInv bounds what it
\* measured.
LEMMA PerfMeasures == PerfInv => P!MeasuresTheLoop
<1> SUFFICES ASSUME PerfInv, server \in {"drain", "closed"}
             PROVE  got = arg.server.count /\ got <= sent
  BY DEF P!MeasuresTheLoop
<1>1. Received + Len(up) <= SentInAll
  BY DEF PerfInv, NoMoreThanSent
<1>2. got <= sent
  BY <1>1, PerfVars DEF Received, SentInAll
<1> QED BY <1>2 DEF PerfInv, LoopIsComplete

-----------------------------------------------------------------------------
(* demo/rest: main and the thread of the REP server.                       *)

\* The steps of main up to each point of rest_start
BeforeDialed == {"thread", "open", "dial", "release"}
Methods == {"collect", "add", "start", "return"}
Limits == {"add", "start", "return"}
Starting == {"thread", "open", "dial", "hold", "alloc", "method", "collect",
             "add", "start"}

\* The handler is configured step by step, and the socket dials before.
HandlerInPlace ==
  /\ main \in Methods \/ handler = "server" => method = R!Http[want]
  /\ main \in Limits \/ handler = "server" => collect = Limit
  /\ main \in Starting \ BeforeDialed \/ main = "return" \/ handler = "server" =>
       req_sock \in {"dialing", "connected"}
  /\ main \in Starting => ~started
  /\ main \in {"thread", "open", "dial", "hold", "alloc"} => handler = "none"
  /\ main \in {"method", "collect", "add"} => handler = "rest_start"
  /\ main \in {"start", "return"} => handler = "server"

\* Who holds the server
RefsInPlace ==
  /\ main \in {"thread", "open", "dial", "hold", "release"} => refs = {}
  /\ main \in {"alloc", "method", "collect", "add", "start", "return"} =>
       refs = {"rest_start"}
  /\ main = "unwind" => refs \subseteq {"rest_start"} /\ threw
  /\ main = "join" /\ ~threw => refs = {"main"}
  /\ main = "release" => threw /\ handler = "none" /\ ~started
  /\ threw => main \in {"unwind", "join", "release", "returned"}
  /\ main = "returned" => threw
  /\ main = "unwind" => ~started

\* The thread that main joins never ends but with the process.
InprocServes ==
  /\ inproc # "ended"
  /\ main \notin {"thread", "release", "returned"} => inproc # "none"

RestInv ==
  /\ R!TypeOK /\ want \in {R!verb[i] : i \in DOMAIN R!verb}
  /\ threw \in BOOLEAN
  /\ HandlerInPlace /\ RefsInPlace /\ InprocServes
  /\ R!HandlesAsConfigured /\ R!StartsInAnyOrder /\ R!FailedStartCleansUp

\* to_name gives each verb the name that HTTP has for it.
LEMMA VerbNames ==
  ASSUME NEW v \in {R!verb[i] : i \in DOMAIN R!verb}
  PROVE  R!to_name(v) = R!Http[v]
<1> DEFINE k == CHOOSE i \in DOMAIN R!verb : R!verb[i] = v
<1>1. k \in DOMAIN R!verb /\ R!verb[k] = v
  <2>1. \E i \in DOMAIN R!verb : R!verb[i] = v
    OBVIOUS
  <2> QED BY <2>1
<1>2. R!to_name(v) = R!verb_name[k]
  BY DEF R!to_name
<1>3. DOMAIN R!verb = 1 .. 9
  BY DEF R!verb
<1> HIDE DEF k
<1>4. k \in {1, 2, 3, 4, 5, 6, 7, 8, 9}
  BY <1>1, <1>3
<1>5. R!verb_name[k] = R!Http[R!verb[k]]
  BY <1>4 DEF R!verb, R!verb_name, R!Http
<1> QED BY <1>1, <1>2, <1>5

\* Before rest_start there is nothing.
LEMMA RestInit ==
  ASSUME R!Init
  PROVE  RestInv
BY DEF R!Init, RestInv, R!TypeOK, HandlerInPlace, RefsInPlace, InprocServes, Methods,
       Limits, Starting, BeforeDialed, R!HandlesAsConfigured, R!StartsInAnyOrder,
       R!FailedStartCleansUp

\* A step of rest_start that neither fails nor touches the handler
LEMMA RestBegin ==
  ASSUME RestInv, R!Thread \/ R!Open \/ R!Dial \/ R!Hold
  PROVE  RestInv'
<1>1. /\ UNCHANGED <<want, threw, started, handler, method, collect, handled, fault, exited>>
      /\ ~threw
      /\ \/ /\ main = "thread" /\ main' = "open" /\ inproc' = "open"
            /\ UNCHANGED <<req_sock, refs>>
         \/ /\ main = "open" /\ main' = "dial" /\ req_sock' = "open"
            /\ UNCHANGED <<inproc, refs>>
         \/ /\ main = "dial" /\ main' = "hold" /\ req_sock' = "dialing"
            /\ UNCHANGED <<inproc, refs>>
         \/ /\ main = "hold" /\ main' = "alloc" /\ refs' = {"rest_start"}
            /\ UNCHANGED <<inproc, req_sock>>
  BY DEF R!Thread, R!Open, R!Dial, R!Hold, R!Goto, R!server, R!ended
<1>2. R!TypeOK' /\ (want \in {R!verb[i] : i \in DOMAIN R!verb})' /\ (threw \in BOOLEAN)'
  BY <1>1 DEF RestInv, R!TypeOK
<1>3. HandlerInPlace'
  BY <1>1 DEF RestInv, HandlerInPlace, Methods, Limits, Starting, BeforeDialed
<1>4. RefsInPlace' /\ InprocServes'
  BY <1>1 DEF RestInv, RefsInPlace, InprocServes, HandlerInPlace, Starting
<1>5. R!HandlesAsConfigured' /\ R!StartsInAnyOrder' /\ R!FailedStartCleansUp'
  BY <1>1 DEF RestInv, R!HandlesAsConfigured, R!StartsInAnyOrder, R!FailedStartCleansUp
<1> QED BY <1>2, <1>3, <1>4, <1>5 DEF RestInv

\* rest_start configures the handler, adds it to the server, starts that and
\* returns it.
LEMMA RestConfigure ==
  ASSUME RestInv,
         \/ R!Alloc \/ R!set_method \/ R!collect_body \/ R!add_handler \/ R!start
         \/ R!ReturnServer
  PROVE  RestInv'
<1>1. /\ UNCHANGED <<want, threw, inproc, req_sock, handled, fault, exited>>
      /\ ~threw
      /\ \/ /\ main = "alloc" /\ main' = "method" /\ handler' = "rest_start"
            /\ UNCHANGED <<refs, started, collect>>
         \/ /\ main = "method" /\ main' = "collect" /\ method' = R!to_name(want)
            /\ UNCHANGED <<refs, started, handler, collect>>
         \/ /\ main = "collect" /\ main' = "add" /\ collect' = Limit
            /\ UNCHANGED <<refs, started, handler, method>>
         \/ /\ main = "add" /\ main' = "start" /\ handler' = "server"
            /\ UNCHANGED <<refs, started, method, collect>>
         \/ /\ main = "start" /\ main' = "return" /\ started' = TRUE
            /\ UNCHANGED <<refs, handler, method, collect>>
         \/ /\ main = "return" /\ main' = "join" /\ refs' = {"main"}
            /\ handler' = IF handler = "rest_start" THEN "freed" ELSE handler
            /\ UNCHANGED <<started, method, collect>>
  BY DEF R!Alloc, R!set_method, R!collect_body, R!add_handler, R!start,
         R!ReturnServer, R!Goto, R!ended
<1>2. R!to_name(want) = R!Http[want]
  BY VerbNames DEF RestInv
<1>3. /\ main = "return" => handler = "server"
      /\ main = "start" => handler = "server"
  BY DEF RestInv, HandlerInPlace
<1>4. R!TypeOK' /\ (want \in {R!verb[i] : i \in DOMAIN R!verb})' /\ (threw \in BOOLEAN)'
  <2>1. /\ started => handler = "server"
        /\ main \in Starting => ~started
        /\ threw \in BOOLEAN /\ started \in BOOLEAN /\ fault \in BOOLEAN
        /\ exited \in BOOLEAN
    BY DEF RestInv, R!TypeOK, HandlerInPlace
  <2>2. started' => handler' = "server"
    BY <1>1, <1>3, <2>1 DEF Starting
  <2>3. /\ threw' \in BOOLEAN /\ started' \in BOOLEAN /\ fault' \in BOOLEAN
        /\ exited' \in BOOLEAN
    BY <1>1, <2>1
  <2>4. {threw', started', fault', exited'} \subseteq BOOLEAN
    BY <2>3
  <2> QED BY <1>1, <2>2, <2>3, <2>4 DEF RestInv, R!TypeOK
<1>5. HandlerInPlace'
  BY <1>1, <1>2, <1>3 DEF RestInv, HandlerInPlace, Methods, Limits, Starting, BeforeDialed
<1>6. RefsInPlace' /\ InprocServes'
  BY <1>1 DEF RestInv, RefsInPlace, InprocServes
<1>7. R!HandlesAsConfigured' /\ R!StartsInAnyOrder' /\ R!FailedStartCleansUp'
  BY <1>1 DEF RestInv, R!HandlesAsConfigured, R!StartsInAnyOrder, R!FailedStartCleansUp
<1> QED BY <1>4, <1>5, <1>6, <1>7 DEF RestInv

\* A call of rest_start, or the construction of the thread, throws.
LEMMA RestThrow ==
  ASSUME RestInv, R!Throw
  PROVE  RestInv'
<1>1. /\ UNCHANGED <<want, inproc, req_sock, refs, started, handler, method, collect,
                     handled, exited>>
      /\ ~threw /\ threw' = TRUE /\ fault' = TRUE
      /\ main \in Starting
      /\ main' = IF main = "thread" THEN "release" ELSE "unwind"
  BY DEF R!Throw, R!server, Starting
<1>2. R!TypeOK' /\ (want \in {R!verb[i] : i \in DOMAIN R!verb})' /\ (threw \in BOOLEAN)'
  BY <1>1 DEF RestInv, R!TypeOK
<1>3. HandlerInPlace'
  BY <1>1 DEF RestInv, HandlerInPlace, Methods, Limits, Starting, BeforeDialed
<1>4. RefsInPlace'
  BY <1>1 DEF RestInv, RefsInPlace, HandlerInPlace, Starting
<1>5. InprocServes' /\ R!StartsInAnyOrder'
  BY <1>1 DEF RestInv, InprocServes, Starting, R!StartsInAnyOrder
<1>6. R!HandlesAsConfigured'
  BY <1>1 DEF RestInv, R!HandlesAsConfigured
<1>7. R!FailedStartCleansUp'
  BY <1>1 DEF RestInv, R!FailedStartCleansUp, RefsInPlace, HandlerInPlace, Starting
<1> QED BY <1>2, <1>3, <1>4, <1>5, <1>6, <1>7 DEF RestInv

\* The locals of a rest_start that failed are destroyed: its reference was the
\* only one.
LEMMA RestUnwind ==
  ASSUME RestInv, R!Unwind
  PROVE  RestInv'
<1>1. refs \subseteq {"rest_start"} /\ threw /\ ~started
  BY DEF R!Unwind, RestInv, RefsInPlace
<1>2. refs \ {"rest_start"} = {}
  BY <1>1
<1>3. /\ UNCHANGED <<want, threw, inproc, req_sock, method, collect, handled, fault, exited>>
      /\ main = "unwind" /\ main' = "join" /\ refs' = {} /\ started' = FALSE
      /\ handler' = IF handler \in {"rest_start", "server"} THEN "freed" ELSE handler
  BY <1>1, <1>2 DEF R!Unwind, R!Fini, R!ended
<1>4. R!TypeOK' /\ (want \in {R!verb[i] : i \in DOMAIN R!verb})' /\ (threw \in BOOLEAN)'
  BY <1>3 DEF RestInv, R!TypeOK
<1>5. HandlerInPlace'
  BY <1>3 DEF RestInv, R!TypeOK, HandlerInPlace, Methods, Limits, Starting, BeforeDialed
<1>6. RefsInPlace' /\ InprocServes'
  BY <1>1, <1>3 DEF RestInv, RefsInPlace, InprocServes
<1>7. R!HandlesAsConfigured' /\ R!StartsInAnyOrder'
  BY <1>3 DEF RestInv, R!HandlesAsConfigured, R!StartsInAnyOrder
<1>8. R!FailedStartCleansUp'
  BY <1>3 DEF RestInv, R!TypeOK, R!FailedStartCleansUp
<1> QED BY <1>4, <1>5, <1>6, <1>7, <1>8 DEF RestInv

\* main returns only when it has no thread to join.
LEMMA RestReturn ==
  ASSUME RestInv, R!Return
  PROVE  RestInv'
<1>1. main = "release"
  BY DEF R!Return, RestInv, InprocServes
<1>2. refs = {} /\ threw /\ handler = "none" /\ ~started
  BY <1>1 DEF RestInv, RefsInPlace
<1>3. refs \ {"main"} = {}
  BY <1>2
<1>4. /\ UNCHANGED <<want, threw, inproc, req_sock, method, collect, handled, fault, exited>>
      /\ main' = "returned" /\ refs' = {} /\ started' = FALSE /\ handler' = "none"
  BY <1>2, <1>3 DEF R!Return, R!Fini, R!ended
<1>5. R!TypeOK' /\ (want \in {R!verb[i] : i \in DOMAIN R!verb})' /\ (threw \in BOOLEAN)'
  BY <1>4 DEF RestInv, R!TypeOK
<1>6. HandlerInPlace'
  BY <1>4 DEF RestInv, HandlerInPlace, Methods, Limits, Starting, BeforeDialed
<1>7. RefsInPlace' /\ InprocServes'
  BY <1>2, <1>4 DEF RestInv, RefsInPlace, InprocServes
<1>8. R!HandlesAsConfigured' /\ R!StartsInAnyOrder' /\ R!FailedStartCleansUp'
  BY <1>4 DEF RestInv, R!HandlesAsConfigured, R!StartsInAnyOrder, R!FailedStartCleansUp
<1> QED BY <1>5, <1>6, <1>7, <1>8 DEF RestInv

\* The thread of the REP server starts to serve, or ends with the process; the
\* REQ socket connects.
LEMMA RestThreads ==
  ASSUME RestInv, R!Inproc \/ R!InprocThrows \/ R!Connected
  PROVE  RestInv'
<1>1. /\ UNCHANGED <<want, main, threw, refs, started, handler, method, collect, handled>>
      /\ inproc' = inproc \/ inproc' \in {"listen", "serve"}
      /\ req_sock' = req_sock \/ req_sock' = "connected"
      /\ \/ UNCHANGED <<fault, exited>>
         \/ fault' = TRUE /\ exited' = TRUE
  BY DEF R!Inproc, R!InprocOpen, R!InprocListen, R!InprocThrows, R!Connected, R!server,
         R!ended
<1>2. R!TypeOK' /\ (want \in {R!verb[i] : i \in DOMAIN R!verb})' /\ (threw \in BOOLEAN)'
  <2>1. /\ threw \in BOOLEAN /\ started \in BOOLEAN /\ fault \in BOOLEAN
        /\ exited \in BOOLEAN
    BY DEF RestInv, R!TypeOK
  <2>2. {threw', started', fault', exited'} \subseteq BOOLEAN
    BY <1>1, <2>1
  <2> QED BY <1>1, <2>2 DEF RestInv, R!TypeOK
<1>3. HandlerInPlace'
  BY <1>1 DEF RestInv, HandlerInPlace
<1>4. RefsInPlace' /\ InprocServes'
  BY <1>1 DEF RestInv, RefsInPlace, InprocServes
<1>5. R!HandlesAsConfigured' /\ R!StartsInAnyOrder' /\ R!FailedStartCleansUp'
  BY <1>1 DEF RestInv, R!HandlesAsConfigured, R!StartsInAnyOrder, R!FailedStartCleansUp
<1> QED BY <1>2, <1>3, <1>4, <1>5 DEF RestInv

\* The handler that takes a request is with the server, so it was configured.
LEMMA RestRequest ==
  ASSUME RestInv, NEW m, NEW size, R!Request(m, size)
  PROVE  RestInv'
<1>1. /\ UNCHANGED <<want, main, threw, inproc, req_sock, refs, started, handler, method,
                     collect, fault, exited>>
      /\ handler = "server" /\ m = method /\ size <= collect
      /\ handled' = [method |-> m, size |-> size, req_sock |-> req_sock]
  BY DEF R!Request, R!server, R!ended
<1>2. /\ method = R!Http[want] /\ collect = Limit
      /\ req_sock \in {"dialing", "connected"}
  BY <1>1 DEF RestInv, HandlerInPlace
<1>3. R!HandlesAsConfigured'
  BY <1>1, <1>2 DEF R!HandlesAsConfigured
<1>4. R!TypeOK' /\ (want \in {R!verb[i] : i \in DOMAIN R!verb})' /\ (threw \in BOOLEAN)'
  BY <1>1 DEF RestInv, R!TypeOK
<1>5. HandlerInPlace' /\ RefsInPlace' /\ InprocServes'
  BY <1>1 DEF RestInv, HandlerInPlace, RefsInPlace, InprocServes
<1>6. R!StartsInAnyOrder' /\ R!FailedStartCleansUp'
  BY <1>1 DEF RestInv, R!StartsInAnyOrder, R!FailedStartCleansUp
<1> QED BY <1>3, <1>4, <1>5, <1>6 DEF RestInv

\* RestInv is inductive.
LEMMA RestNext == RestInv /\ [R!Next]_(R!vars) => RestInv'
<1> SUFFICES ASSUME RestInv, [R!Next]_(R!vars) PROVE RestInv'
  OBVIOUS
<1>1. CASE R!Main
  BY <1>1, RestBegin, RestConfigure, RestUnwind, RestReturn DEF R!Main
<1>2. CASE R!Inproc \/ R!InprocThrows \/ R!Connected
  BY <1>2, RestThreads
<1>3. CASE R!Throw
  BY <1>3, RestThrow
<1>4. CASE \E m \in {R!Http[v] : v \in DOMAIN R!Http}, size \in BodySizes : R!Request(m, size)
  BY <1>4, RestRequest
<1>5. CASE UNCHANGED R!vars
  <2>1. UNCHANGED <<want, main, threw, inproc, req_sock, refs, started, handler, method,
                    collect, handled, fault, exited>>
    BY <1>5 DEF R!vars, R!server, R!ended
  <2>2. R!TypeOK' /\ (want \in {R!verb[i] : i \in DOMAIN R!verb})' /\ (threw \in BOOLEAN)'
    BY <2>1 DEF RestInv, R!TypeOK
  <2>3. HandlerInPlace' /\ RefsInPlace' /\ InprocServes'
    BY <2>1 DEF RestInv, HandlerInPlace, RefsInPlace, InprocServes
  <2>4. R!HandlesAsConfigured' /\ R!StartsInAnyOrder' /\ R!FailedStartCleansUp'
    BY <2>1 DEF RestInv, R!HandlesAsConfigured, R!StartsInAnyOrder, R!FailedStartCleansUp
  <2> QED BY <2>2, <2>3, <2>4 DEF RestInv
<1> QED BY <1>1, <1>2, <1>3, <1>4, <1>5 DEF R!Next

\* A started server keeps accepting requests: what ends it is never reached
\* with a server that was started.
LEMMA RestServes ==
  ASSUME RestInv, R!Next, started
  PROVE  started'
<1>1. CASE R!Unwind
  BY <1>1 DEF R!Unwind, RestInv, RefsInPlace
<1>2. CASE R!Return
  <2>1. main = "release"
    BY <1>2 DEF R!Return, RestInv, InprocServes
  <2> QED BY <2>1 DEF RestInv, RefsInPlace
<1>3. CASE R!Thread \/ R!Open \/ R!Dial \/ R!Hold
  BY <1>3 DEF R!Thread, R!Open, R!Dial, R!Hold, R!server
<1>4. CASE \/ R!Alloc \/ R!set_method \/ R!collect_body \/ R!add_handler \/ R!start
           \/ R!ReturnServer
  BY <1>4 DEF R!Alloc, R!set_method, R!collect_body, R!add_handler, R!start,
              R!ReturnServer
<1>5. CASE R!Inproc \/ R!Throw \/ R!InprocThrows \/ R!Connected
  BY <1>5 DEF R!Inproc, R!InprocOpen, R!InprocListen, R!Throw, R!InprocThrows,
              R!Connected, R!server
<1>6. CASE \E m \in {R!Http[v] : v \in DOMAIN R!Http}, size \in BodySizes : R!Request(m, size)
  BY <1>6 DEF R!Request, R!server
<1> QED BY <1>1, <1>2, <1>3, <1>4, <1>5, <1>6 DEF R!Next, R!Main

-----------------------------------------------------------------------------
(* demo/reqrep: requests, replies and dates.                               *)

\* The reply of time t: eight bytes
Stamp(t) == [i \in 1 .. 8 |-> Digit(ToUnsigned(8, t), 8 - i)]

ReqTypes ==
  /\ now \in Start .. Start + MaxTicks
  /\ rep_server \in {"start", "recv", "handle", "failed"}
  /\ IF rep_server = "handle" THEN buf \in Seq(Byte) ELSE buf = Null
  /\ route \in Clients \cup {Null}
  /\ arrived \subseteq Clients
  /\ copies \in [Clients -> 0 .. MaxCopies]
  /\ req_client \in [Clients -> {"start", "recv", "done"}]
  /\ body \in [Clients -> Seq(Byte) \cup {Null}]
  /\ reply \in [Clients -> Seq(Byte) \cup {Null}]
  /\ asked \in [Clients -> Int \cup {Null}]
  /\ date \in [Clients -> Int \cup {Null}]

\* A client that does not run has nothing on its way.
NothingOnItsWay(c) ==
  req_client[c] = "start" =>
    body[c] = Null /\ copies[c] = 0 /\ c \notin arrived /\ reply[c] = Null

\* A client that runs has asked, and shows a date of after that.
HasAsked(c) ==
  /\ req_client[c] # "start" => body[c] \in Seq(Byte) /\ asked[c] \in Start .. now
  /\ req_client[c] = "done" => date[c] \in asked[c] .. now

\* A reply is the date of a moment after the request.
ReplyIsFresh(c) ==
  reply[c] # Null =>
    /\ body[c] = Q!Command
    /\ \E t \in asked[c] .. now : reply[c] = Stamp(t)

\* The request that the server looks at is that of the client it will reply to,
\* unless that client is gone.
RequestAtHand ==
  rep_server = "handle" /\ route # Null =>
    req_client[route] # "start" /\ buf = body[route]

ReqInv ==
  /\ ReqTypes /\ RequestAtHand
  /\ \A c \in Clients : NothingOnItsWay(c) /\ HasAsked(c) /\ ReplyIsFresh(c)

\* Writing a number over eight bytes leaves nothing of them.
LEMMA Put64 ==
  ASSUME NEW b, DOMAIN b = 1 .. 8, NEW u
  PROVE  Q!PUT64(b, u) = [i \in 1 .. 8 |-> Digit(u, 8 - i)]
<1>1. \A i \in 1 .. 8 : i <= 8
  OBVIOUS
<1> QED BY <1>1 DEF Q!PUT64, Digit

\* Eight bytes
LEMMA EightDigits ==
  ASSUME NEW u \in Int
  PROVE  LET b == [i \in 1 .. 8 |-> Digit(u, 8 - i)]
         IN  b \in Seq(Byte) /\ Len(b) = 8 /\ DOMAIN b = 1 .. 8
<1> DEFINE b == [i \in 1 .. 8 |-> Digit(u, 8 - i)]
<1>1. \A k \in 0 .. 7 : Digit(u, k) \in Byte
  BY OneDigit
<1>2. \A i \in 1 .. 8 : 8 - i \in 0 .. 7
  OBVIOUS
<1>3. \A i \in 1 .. 8 : Digit(u, 8 - i) \in Byte
  BY <1>1, <1>2
<1>4. b \in [1 .. 8 -> Byte]
  BY <1>3
<1>5. b \in Seq(Byte)
  BY <1>4
<1>6. Len(b) = 8
  BY <1>4
<1> QED BY <1>4, <1>5, <1>6

\* Reading them gives the number.
LEMMA Get64 ==
  ASSUME NEW u \in 0 .. Base^8 - 1
  PROVE  Q!GET64([i \in 1 .. 8 |-> Digit(u, 8 - i)]) = u
<1> DEFINE b == [i \in 1 .. 8 |-> Digit(u, 8 - i)]
<1>1. /\ b[1] = Digit(u, 7) /\ b[2] = Digit(u, 6) /\ b[3] = Digit(u, 5)
      /\ b[4] = Digit(u, 4) /\ b[5] = Digit(u, 3) /\ b[6] = Digit(u, 2)
      /\ b[7] = Digit(u, 1) /\ b[8] = Digit(u, 0)
  OBVIOUS
<1> HIDE DEF b
<1>2. Q!GET64(b) = Digit(u, 7) * Base^7 + Digit(u, 6) * Base^6 + Digit(u, 5) * Base^5
           + Digit(u, 4) * Base^4 + Digit(u, 3) * Base^3 + Digit(u, 2) * Base^2
           + Digit(u, 1) * Base + Digit(u, 0)
  BY <1>1 DEF Q!GET64
<1>3. Q!GET64(b) = u
  BY <1>2, EightBytes
<1> QED BY <1>3 DEF b

\* A clock that fits into time_t
LEMMA ClockFits ==
  ASSUME NEW t \in Start .. Start + MaxTicks
  PROVE  t \in Int /\ -Base^8 <= 2 * t /\ 2 * t < Base^8
<1>1. PICK n \in Nat : n = Base^8
  BY Powers
<1>2. Start \in Int /\ MaxTicks \in Nat /\ -n <= 2 * Start /\ 2 * (Start + MaxTicks) < n
  BY <1>1, ReqRepAssumption DEF Q!Assumption
<1> QED BY <1>1, <1>2

\* The client reads the time that the server wrote.
LEMMA StampReadsBack ==
  ASSUME NEW t \in Start .. Start + MaxTicks
  PROVE  /\ Stamp(t) \in Seq(Byte) /\ Len(Stamp(t)) = 8
         /\ Q!ToSigned(8, Q!GET64(Stamp(t))) = t
<1>1. t \in Int /\ -Base^8 <= 2 * t /\ 2 * t < Base^8
  BY ClockFits
<1>2. ToUnsigned(8, t) \in 0 .. Base^8 - 1 /\ ToSigned(8, ToUnsigned(8, t)) = t
  BY <1>1, SignedBack
<1>3. PICK u \in 0 .. Base^8 - 1 : u = ToUnsigned(8, t)
  BY <1>2
<1>4. u \in Int
  BY Powers
<1>5. Stamp(t) = [i \in 1 .. 8 |-> Digit(u, 8 - i)]
  BY <1>3 DEF Stamp
<1>6. Stamp(t) \in Seq(Byte) /\ Len(Stamp(t)) = 8
  BY <1>4, <1>5, EightDigits
<1>7. Q!GET64(Stamp(t)) = u
  BY <1>5, Get64
<1>8. Q!ToSigned(8, u) = t
  BY <1>2, <1>3 DEF ToSigned, Q!ToSigned
<1> QED BY <1>6, <1>7, <1>8

\* The command: seven zeros and DATECMD
LEMMA CommandBytes ==
  /\ Q!Command \in Seq(Byte) /\ Len(Q!Command) = 8
  /\ Q!Command = [i \in 1 .. 8 |-> IF i = 8 THEN 1 ELSE 0]
<1> DEFINE z == [i \in 1 .. 8 |-> 0]
<1>1. DOMAIN z = 1 .. 8
  OBVIOUS
<1>2. Q!Command = Q!PUT64(z, 1)
  BY DEF Q!Command, Q!SizeofU64, Q!DATECMD
<1> HIDE DEF z
<1>3. Q!Command = [i \in 1 .. 8 |-> Digit(1, 8 - i)]
  BY <1>1, <1>2, Put64
<1>4. \A k \in 1 .. 7 : Digit(1, k) = 0
  <2> SUFFICES ASSUME NEW k \in 1 .. 7 PROVE Digit(1, k) = 0
    OBVIOUS
  <2>1. PICK n \in Nat \ {0} : n = Base^k /\ n >= 2
    BY Powers
  <2>2. (n * 0 + 1) \div n = 0
    BY <2>1, Quotient
  <2>3. 1 \div n = 0
    BY <2>1, <2>2
  <2>4. (Base * 0 + 0) % Base = 0
    BY BaseAssumption, Quotient
  <2>5. 0 % Base = 0
    BY <2>4, BaseAssumption
  <2> QED BY <2>1, <2>3, <2>5 DEF Digit
<1>5. Digit(1, 0) = 1
  <2>1. (1 * 1 + 0) \div 1 = 1
    BY Quotient
  <2>2. 1 \div 1 = 1
    BY <2>1
  <2>3. (Base * 0 + 1) % Base = 1
    BY BaseAssumption, Quotient
  <2>4. 1 % Base = 1
    BY <2>3, BaseAssumption
  <2> QED BY <2>2, <2>4, Powers DEF Digit
<1>6. \A i \in 1 .. 8 : Digit(1, 8 - i) = IF i = 8 THEN 1 ELSE 0
  BY <1>4, <1>5
<1> QED BY <1>3, <1>6, EightDigits

\* No other eight bytes read as DATECMD.
LEMMA OnlyCommand ==
  ASSUME NEW b \in Seq(Byte), Len(b) = 8, Q!GET64(b) = 1
  PROVE  b = Q!Command
<1>1. \A i \in 1 .. 8 : b[i] \in Nat
  <2>1. \A i \in 1 .. 8 : b[i] \in Byte
    BY ElementOfSeq
  <2>2. Byte \subseteq Nat
    BY BaseAssumption DEF Byte
  <2> QED BY <2>1, <2>2
<1>2. ASSUME NEW d \in Nat, NEW w \in Nat, w >= 2
      PROVE  \E x \in Nat : x = d * w /\ (d = 0 \/ x >= 2)
  <2>1. d * w \in Nat
    OBVIOUS
  <2>2. d = 0 \/ d * w >= 2
    BY <1>2
  <2> QED BY <2>1, <2>2
<1>3. PICK x1 \in Nat : x1 = b[1] * Base^7 /\ (b[1] = 0 \/ x1 >= 2)
  <2>1. Base^7 \in Nat /\ Base^7 >= 2 /\ b[1] \in Nat
    BY <1>1, Powers
  <2> QED BY <1>2, <2>1
<1>4. PICK x2 \in Nat : x2 = b[2] * Base^6 /\ (b[2] = 0 \/ x2 >= 2)
  <2>1. Base^6 \in Nat /\ Base^6 >= 2 /\ b[2] \in Nat
    BY <1>1, Powers
  <2> QED BY <1>2, <2>1
<1>5. PICK x3 \in Nat : x3 = b[3] * Base^5 /\ (b[3] = 0 \/ x3 >= 2)
  <2>1. Base^5 \in Nat /\ Base^5 >= 2 /\ b[3] \in Nat
    BY <1>1, Powers
  <2> QED BY <1>2, <2>1
<1>6. PICK x4 \in Nat : x4 = b[4] * Base^4 /\ (b[4] = 0 \/ x4 >= 2)
  <2>1. Base^4 \in Nat /\ Base^4 >= 2 /\ b[4] \in Nat
    BY <1>1, Powers
  <2> QED BY <1>2, <2>1
<1>7. PICK x5 \in Nat : x5 = b[5] * Base^3 /\ (b[5] = 0 \/ x5 >= 2)
  <2>1. Base^3 \in Nat /\ Base^3 >= 2 /\ b[5] \in Nat
    BY <1>1, Powers
  <2> QED BY <1>2, <2>1
<1>8. PICK x6 \in Nat : x6 = b[6] * Base^2 /\ (b[6] = 0 \/ x6 >= 2)
  <2>1. Base^2 \in Nat /\ Base^2 >= 2 /\ b[6] \in Nat
    BY <1>1, Powers
  <2> QED BY <1>2, <2>1
<1>9. PICK x7 \in Nat : x7 = b[7] * Base /\ (b[7] = 0 \/ x7 >= 2)
  <2>1. Base \in Nat /\ Base >= 2 /\ b[7] \in Nat
    BY <1>1, BaseAssumption
  <2> QED BY <1>2, <2>1
<1>10. x1 + x2 + x3 + x4 + x5 + x6 + x7 + b[8] = 1 /\ b[8] \in Nat
  BY <1>1, <1>3, <1>4, <1>5, <1>6, <1>7, <1>8, <1>9 DEF Q!GET64
<1>11. /\ b[1] = 0 /\ b[2] = 0 /\ b[3] = 0 /\ b[4] = 0 /\ b[5] = 0 /\ b[6] = 0
       /\ b[7] = 0
  <2>1. x1 < 2 /\ x2 < 2 /\ x3 < 2 /\ x4 < 2 /\ x5 < 2 /\ x6 < 2 /\ x7 < 2
    BY <1>10
  <2>2. ~ (x1 >= 2) /\ ~ (x2 >= 2) /\ ~ (x3 >= 2) /\ ~ (x4 >= 2)
    BY <2>1
  <2>3. ~ (x5 >= 2) /\ ~ (x6 >= 2) /\ ~ (x7 >= 2)
    BY <2>1
  <2> QED BY <1>3, <1>4, <1>5, <1>6, <1>7, <1>8, <1>9, <2>2, <2>3, Zenon
<1>12. x1 = 0 /\ x2 = 0 /\ x3 = 0 /\ x4 = 0 /\ x5 = 0 /\ x6 = 0 /\ x7 = 0
  BY <1>3, <1>4, <1>5, <1>6, <1>7, <1>8, <1>9, <1>11, Powers, BaseAssumption
<1>13. b[8] = 1
  BY <1>10, <1>12
<1>14. \A i \in 1 .. 8 : b[i] = IF i = 8 THEN 1 ELSE 0
  BY <1>11, <1>13
<1> QED BY <1>14, CommandBytes

\* Before the first request the invariant holds.
LEMMA ReqInit ==
  ASSUME Q!Init
  PROVE  ReqInv
<1>1. Start \in Start .. Start + MaxTicks /\ 0 \in 0 .. MaxCopies
  BY ReqRepAssumption DEF Q!Assumption
<1>2. ReqTypes
  BY <1>1 DEF Q!Init, ReqTypes
<1> QED BY <1>2 DEF Q!Init, ReqInv, RequestAtHand, NothingOnItsWay, HasAsked, ReplyIsFresh

\* A step that changes nothing of a client keeps what holds of it; time may
\* pass.
LEMMA ReqSame ==
  ASSUME ReqInv, NEW c \in Clients, now' \in Int, now <= now',
         req_client'[c] = req_client[c], body'[c] = body[c], copies'[c] = copies[c],
         reply'[c] = reply[c], asked'[c] = asked[c], date'[c] = date[c],
         c \in arrived' => c \in arrived
  PROVE  NothingOnItsWay(c)' /\ HasAsked(c)' /\ ReplyIsFresh(c)'
<1>1. now \in Int /\ Start \in Int
  BY ReqRepAssumption DEF ReqInv, ReqTypes, Q!Assumption
<1>2. NothingOnItsWay(c)'
  BY DEF ReqInv, NothingOnItsWay
<1>3. HasAsked(c)'
  BY <1>1 DEF ReqInv, HasAsked
<1>4. ReplyIsFresh(c)'
  <2> SUFFICES ASSUME reply[c] # Null
               PROVE  /\ body[c] = Q!Command
                      /\ \E t \in asked[c] .. now' : reply[c] = Stamp(t)
    BY DEF ReplyIsFresh
  <2>1. req_client[c] # "start"
    BY DEF ReqInv, NothingOnItsWay
  <2>2. asked[c] \in Int
    BY <1>1, <2>1 DEF ReqInv, HasAsked
  <2>3. body[c] = Q!Command
    BY DEF ReqInv, ReplyIsFresh
  <2>4. PICK t \in asked[c] .. now : reply[c] = Stamp(t)
    BY DEF ReqInv, ReplyIsFresh
  <2>5. t \in asked[c] .. now'
    BY <1>1, <2>2
  <2> QED BY <2>3, <2>4, <2>5
<1> QED BY <1>2, <1>3, <1>4

\* Steps of the server that neither take a request nor answer one
LEMMA ReqServer ==
  ASSUME ReqInv, Q!Listen \/ Q!Ignore \/ Q!ServerThrows \/ Q!RestartServer
  PROVE  ReqInv'
<1>1. /\ UNCHANGED <<now, req_client, body, copies, reply, asked, date>>
      /\ rep_server' \in {"start", "recv", "failed"}
      /\ buf' = Null
      /\ arrived' \subseteq arrived
      /\ route' \in {route, Null}
  BY DEF Q!Listen, Q!Ignore, Q!ServerThrows, Q!RestartServer, Q!clientVars, ReqInv,
         ReqTypes
<1>2. ReqTypes' /\ RequestAtHand'
  BY <1>1 DEF ReqInv, ReqTypes, RequestAtHand
<1>3. now' \in Int /\ now <= now'
  BY <1>1, ReqRepAssumption DEF ReqInv, ReqTypes, Q!Assumption
<1>4. \A c \in Clients : NothingOnItsWay(c)' /\ HasAsked(c)' /\ ReplyIsFresh(c)'
  BY <1>1, <1>3, ReqSame
<1> QED BY <1>2, <1>4 DEF ReqInv

\* The server receives a request; its client runs, or there would be none.
LEMMA ReqRecv ==
  ASSUME ReqInv, NEW d \in Clients, Q!Recv(d)
  PROVE  ReqInv'
<1>1. /\ UNCHANGED <<now, req_client, body, copies, reply, asked, date>>
      /\ rep_server' = "handle" /\ buf' = body[d] /\ route' = d
      /\ d \in arrived /\ arrived' = arrived \ {d}
  BY DEF Q!Recv, Q!clientVars
<1>2. req_client[d] # "start"
  BY <1>1 DEF ReqInv, NothingOnItsWay
<1>3. body[d] \in Seq(Byte)
  BY <1>2 DEF ReqInv, HasAsked
<1>4. ReqTypes' /\ RequestAtHand'
  BY <1>1, <1>2, <1>3 DEF ReqInv, ReqTypes, RequestAtHand
<1>5. now' \in Int /\ now <= now'
  BY <1>1, ReqRepAssumption DEF ReqInv, ReqTypes, Q!Assumption
<1>6. \A c \in Clients : NothingOnItsWay(c)' /\ HasAsked(c)' /\ ReplyIsFresh(c)'
  BY <1>1, <1>5, ReqSame
<1> QED BY <1>4, <1>6 DEF ReqInv

\* The server writes the time over the command; the reply reaches the client
\* that sent it, or nobody.
LEMMA ReqAnswer ==
  ASSUME ReqInv, Q!Answer
  PROVE  ReqInv'
<1>1. /\ UNCHANGED <<now, arrived, req_client, body, copies, asked, date>>
      /\ rep_server = "handle" /\ rep_server' = "recv" /\ buf' = Null /\ route' = Null
      /\ Len(buf) = 8 /\ Q!GET64(buf) = 1
      /\ Q!Deliver(Q!PUT64(buf, Q!ToUnsigned(8, now)))
  BY DEF Q!Answer, Q!IsDateRequest, Q!SizeofU64, Q!DATECMD
<1>2. buf \in Seq(Byte) /\ now \in Start .. Start + MaxTicks
  BY <1>1 DEF ReqInv, ReqTypes
<1>3. buf = Q!Command
  BY <1>1, <1>2, OnlyCommand
<1>4. Q!PUT64(buf, Q!ToUnsigned(8, now)) = Stamp(now)
  <2>1. DOMAIN buf = 1 .. 8
    BY <1>1, <1>2
  <2> QED BY <2>1, Put64 DEF Stamp, ToUnsigned, Q!ToUnsigned
<1>5. Stamp(now) \in Seq(Byte)
  BY <1>2, StampReadsBack
<1>6. now' \in Int /\ now <= now' /\ now \in Int
  BY <1>1, <1>2, ReqRepAssumption DEF Q!Assumption
<1>7. CASE reply' = reply
  <2>1. ReqTypes' /\ RequestAtHand'
    BY <1>1, <1>7 DEF ReqInv, ReqTypes, RequestAtHand
  <2>2. \A c \in Clients : NothingOnItsWay(c)' /\ HasAsked(c)' /\ ReplyIsFresh(c)'
    BY <1>1, <1>6, <1>7, ReqSame
  <2> QED BY <2>1, <2>2 DEF ReqInv
<1>8. CASE route # Null /\ reply' = [reply EXCEPT ![route] = Stamp(now)]
  <2>1. PICK d \in Clients : d = route
    BY <1>8 DEF ReqInv, ReqTypes
  <2>2. req_client[d] # "start" /\ body[d] = Q!Command
    BY <1>1, <1>3, <1>8, <2>1 DEF ReqInv, RequestAtHand
  <2>3. asked[d] \in Start .. now
    BY <2>2 DEF ReqInv, HasAsked
  <2>4. /\ reply' \in [Clients -> Seq(Byte) \cup {Null}] /\ reply'[d] = Stamp(now)
        /\ \A c \in Clients \ {d} : reply'[c] = reply[c]
    BY <1>5, <1>8, <2>1 DEF ReqInv, ReqTypes
  <2>5. ReqTypes' /\ RequestAtHand'
    BY <1>1, <2>4 DEF ReqInv, ReqTypes, RequestAtHand
  <2>6. \A c \in Clients \ {d} : NothingOnItsWay(c)' /\ HasAsked(c)' /\ ReplyIsFresh(c)'
    BY <1>1, <1>6, <2>4, ReqSame
  <2>7. NothingOnItsWay(d)' /\ HasAsked(d)'
    BY <1>1, <2>2 DEF ReqInv, NothingOnItsWay, HasAsked
  <2>8. ReplyIsFresh(d)'
    <3>1. now \in asked[d] .. now
      BY <1>6, <2>3
    <3> QED BY <1>1, <2>2, <2>4, <3>1 DEF ReplyIsFresh
  <2> QED BY <2>5, <2>6, <2>7, <2>8 DEF ReqInv
<1> QED BY <1>1, <1>4, <1>7, <1>8 DEF Q!Deliver

\* A client sends its request.
LEMMA ReqSend ==
  ASSUME ReqInv, NEW d \in Clients, Q!Send(d)
  PROVE  ReqInv'
<1>1. PICK b \in {Q!Command} \cup OddBodies :
        /\ UNCHANGED <<now, rep_server, buf, arrived, route, reply, date>>
        /\ req_client[d] = "start"
        /\ req_client' = [req_client EXCEPT ![d] = "recv"]
        /\ body' = [body EXCEPT ![d] = b]
        /\ copies' = [copies EXCEPT ![d] = 1]
        /\ asked' = [asked EXCEPT ![d] = now]
  BY DEF Q!Send, Q!serverVars
<1>2. b \in Seq(Byte)
  BY <1>1, CommandBytes, ReqRepAssumption DEF Q!Assumption, Q!Byte, Byte
<1>3. 1 \in 0 .. MaxCopies /\ now \in Int /\ now \in Start .. now
  BY ReqRepAssumption DEF Q!Assumption, ReqInv, ReqTypes
<1>4. /\ req_client'[d] = "recv" /\ body'[d] = b /\ asked'[d] = now
      /\ reply'[d] = Null
      /\ \A c \in Clients \ {d} :
           /\ req_client'[c] = req_client[c] /\ body'[c] = body[c]
           /\ copies'[c] = copies[c] /\ asked'[c] = asked[c]
  BY <1>1 DEF ReqInv, ReqTypes, NothingOnItsWay
<1>5. ReqTypes'
  <2>1. /\ req_client' \in [Clients -> {"start", "recv", "done"}]
        /\ body' \in [Clients -> Seq(Byte) \cup {Null}]
        /\ copies' \in [Clients -> 0 .. MaxCopies]
        /\ asked' \in [Clients -> Int \cup {Null}]
    BY <1>1, <1>2, <1>3 DEF ReqInv, ReqTypes
  <2> QED BY <1>1, <2>1 DEF ReqInv, ReqTypes
<1>6. RequestAtHand'
  <2> SUFFICES ASSUME rep_server = "handle", route # Null
               PROVE  req_client'[route] # "start" /\ buf = body'[route]
    BY <1>1 DEF RequestAtHand
  <2>1. route \in Clients /\ req_client[route] # "start" /\ buf = body[route]
    BY DEF ReqInv, ReqTypes, RequestAtHand
  <2> QED BY <1>1, <1>4, <2>1
<1>7. \A c \in Clients \ {d} : NothingOnItsWay(c)' /\ HasAsked(c)' /\ ReplyIsFresh(c)'
  <2>1. now' \in Int /\ now <= now'
    BY <1>1, <1>3
  <2> QED BY <1>1, <1>4, <2>1, ReqSame
<1>8. NothingOnItsWay(d)' /\ HasAsked(d)' /\ ReplyIsFresh(d)'
  BY <1>1, <1>2, <1>3, <1>4 DEF NothingOnItsWay, HasAsked, ReplyIsFresh
<1> QED BY <1>5, <1>6, <1>7, <1>8 DEF ReqInv

\* A client reads its reply.
LEMMA ReqReceive ==
  ASSUME ReqInv, NEW d \in Clients, Q!Receive(d)
  PROVE  ReqInv'
<1>1. /\ UNCHANGED <<now, rep_server, buf, arrived, route, body, copies, reply, asked>>
      /\ req_client[d] = "recv" /\ reply[d] # Null
      /\ req_client' = [req_client EXCEPT ![d] = "done"]
      /\ date' = [date EXCEPT ![d] =
           IF Len(reply[d]) = 8 THEN Q!ToSigned(8, Q!GET64(reply[d])) ELSE Null]
  BY DEF Q!Receive, Q!serverVars, Q!SizeofU64
<1>2. asked[d] \in Start .. now /\ now \in Start .. Start + MaxTicks
  BY <1>1 DEF ReqInv, ReqTypes, HasAsked
<1>3. PICK t \in asked[d] .. now : reply[d] = Stamp(t)
  BY <1>1 DEF ReqInv, ReplyIsFresh
<1>4. t \in Start .. Start + MaxTicks /\ t \in Int /\ now \in Int
  BY <1>2, <1>3, ReqRepAssumption DEF Q!Assumption
<1>5. date' = [date EXCEPT ![d] = t]
  BY <1>1, <1>3, <1>4, StampReadsBack
<1>6. /\ req_client'[d] = "done" /\ date'[d] = t
      /\ \A c \in Clients \ {d} : req_client'[c] = req_client[c] /\ date'[c] = date[c]
  BY <1>1, <1>5 DEF ReqInv, ReqTypes
<1>7. ReqTypes'
  <2>1. /\ req_client' \in [Clients -> {"start", "recv", "done"}]
        /\ date' \in [Clients -> Int \cup {Null}]
    BY <1>1, <1>4, <1>5 DEF ReqInv, ReqTypes
  <2> QED BY <1>1, <2>1 DEF ReqInv, ReqTypes
<1>8. RequestAtHand'
  <2> SUFFICES ASSUME rep_server = "handle", route # Null
               PROVE  req_client'[route] # "start" /\ buf = body[route]
    BY <1>1 DEF RequestAtHand
  <2>1. route \in Clients /\ req_client[route] # "start" /\ buf = body[route]
    BY DEF ReqInv, ReqTypes, RequestAtHand
  <2> QED BY <1>6, <2>1
<1>9. \A c \in Clients \ {d} : NothingOnItsWay(c)' /\ HasAsked(c)' /\ ReplyIsFresh(c)'
  <2>1. now' \in Int /\ now <= now'
    BY <1>1, <1>4
  <2> QED BY <1>1, <1>6, <2>1, ReqSame
<1>10. NothingOnItsWay(d)' /\ HasAsked(d)' /\ ReplyIsFresh(d)'
  BY <1>1, <1>6 DEF ReqInv, NothingOnItsWay, HasAsked, ReplyIsFresh
<1> QED BY <1>7, <1>8, <1>9, <1>10 DEF ReqInv

\* A client ends, and its request and reply with it.
LEMMA ReqEnd ==
  ASSUME ReqInv, NEW d \in Clients, Q!End(d)
  PROVE  ReqInv'
<1>1. /\ UNCHANGED <<now, rep_server, buf>>
      /\ req_client' = [req_client EXCEPT ![d] = "start"]
      /\ body' = [body EXCEPT ![d] = Null]
      /\ copies' = [copies EXCEPT ![d] = 0]
      /\ reply' = [reply EXCEPT ![d] = Null]
      /\ asked' = [asked EXCEPT ![d] = Null]
      /\ date' = [date EXCEPT ![d] = Null]
      /\ arrived' = arrived \ {d}
      /\ route' = IF route = d THEN Null ELSE route
  BY DEF Q!End
<1>2. 0 \in 0 .. MaxCopies /\ now \in Int
  BY ReqRepAssumption DEF Q!Assumption, ReqInv, ReqTypes
<1>3. /\ req_client'[d] = "start" /\ body'[d] = Null /\ copies'[d] = 0
      /\ reply'[d] = Null
      /\ \A c \in Clients \ {d} :
           /\ req_client'[c] = req_client[c] /\ body'[c] = body[c]
           /\ copies'[c] = copies[c] /\ reply'[c] = reply[c]
           /\ asked'[c] = asked[c] /\ date'[c] = date[c]
  BY <1>1 DEF ReqInv, ReqTypes
<1>4. ReqTypes'
  <2>1. /\ req_client' \in [Clients -> {"start", "recv", "done"}]
        /\ body' \in [Clients -> Seq(Byte) \cup {Null}]
        /\ copies' \in [Clients -> 0 .. MaxCopies]
        /\ reply' \in [Clients -> Seq(Byte) \cup {Null}]
        /\ asked' \in [Clients -> Int \cup {Null}]
        /\ date' \in [Clients -> Int \cup {Null}]
    BY <1>1, <1>2 DEF ReqInv, ReqTypes
  <2> QED BY <1>1, <2>1 DEF ReqInv, ReqTypes
<1>5. RequestAtHand'
  <2> SUFFICES ASSUME rep_server = "handle", route # Null, route # d
               PROVE  req_client'[route] # "start" /\ buf = body'[route]
    BY <1>1 DEF RequestAtHand
  <2>1. route \in Clients \ {d} /\ req_client[route] # "start" /\ buf = body[route]
    BY DEF ReqInv, ReqTypes, RequestAtHand
  <2> QED BY <1>3, <2>1
<1>6. \A c \in Clients \ {d} : NothingOnItsWay(c)' /\ HasAsked(c)' /\ ReplyIsFresh(c)'
  <2>1. now' \in Int /\ now <= now'
    BY <1>1, <1>2
  <2> QED BY <1>1, <1>3, <2>1, ReqSame
<1>7. NothingOnItsWay(d)' /\ HasAsked(d)' /\ ReplyIsFresh(d)'
  BY <1>1, <1>3 DEF NothingOnItsWay, HasAsked, ReplyIsFresh
<1> QED BY <1>4, <1>5, <1>6, <1>7 DEF ReqInv

\* Copies of a request arrive, are lost, or are sent again.
LEMMA ReqCopies ==
  ASSUME ReqInv, NEW d \in Clients, Q!Arrive(d) \/ Q!Lose(d) \/ Q!Resend(d)
  PROVE  ReqInv'
<1>1. /\ UNCHANGED <<now, rep_server, buf, route, req_client, body, reply, asked, date>>
      /\ arrived' \in {arrived, arrived \cup {d}}
      /\ req_client[d] # "start"
      /\ \E k \in 0 .. MaxCopies : copies' = [copies EXCEPT ![d] = k]
  <2>1. copies[d] \in 0 .. MaxCopies /\ MaxCopies \in Nat
    BY ReqRepAssumption DEF ReqInv, ReqTypes, Q!Assumption
  <2>2. req_client[d] = "start" => copies[d] = 0
    BY DEF ReqInv, NothingOnItsWay
  <2>3. CASE Q!Arrive(d) \/ Q!Lose(d)
    <3>1. copies[d] - 1 \in 0 .. MaxCopies /\ copies[d] # 0
      BY <2>1, <2>3 DEF Q!Arrive, Q!Lose
    <3> QED BY <2>2, <2>3, <3>1 DEF Q!Arrive, Q!Lose, Q!serverVars
  <2>4. CASE Q!Resend(d)
    <3>1. copies[d] + 1 \in 0 .. MaxCopies
      BY <2>1, <2>4 DEF Q!Resend
    <3> QED BY <2>4, <3>1 DEF Q!Resend, Q!serverVars
  <2> QED BY <2>3, <2>4
<1>2. /\ copies' \in [Clients -> 0 .. MaxCopies]
      /\ \A c \in Clients \ {d} : copies'[c] = copies[c]
  BY <1>1 DEF ReqInv, ReqTypes
<1>3. ReqTypes' /\ RequestAtHand'
  BY <1>1, <1>2 DEF ReqInv, ReqTypes, RequestAtHand
<1>4. \A c \in Clients \ {d} : NothingOnItsWay(c)' /\ HasAsked(c)' /\ ReplyIsFresh(c)'
  <2>1. now' \in Int /\ now <= now'
    BY <1>1, ReqRepAssumption DEF ReqInv, ReqTypes, Q!Assumption
  <2> QED BY <1>1, <1>2, <2>1, ReqSame
<1>5. NothingOnItsWay(d)' /\ HasAsked(d)' /\ ReplyIsFresh(d)'
  BY <1>1 DEF ReqInv, NothingOnItsWay, HasAsked, ReplyIsFresh
<1> QED BY <1>3, <1>4, <1>5 DEF ReqInv

\* Time passes.
LEMMA ReqTick ==
  ASSUME ReqInv, Q!Tick
  PROVE  ReqInv'
<1>1. /\ UNCHANGED <<rep_server, buf, arrived, route, req_client, body, copies, reply,
                     asked, date>>
      /\ now < Start + MaxTicks /\ now' = now + 1
  BY DEF Q!Tick, Q!serverVars, Q!clientVars
<1>2. now' \in Start .. Start + MaxTicks /\ now' \in Int /\ now <= now'
  BY <1>1, ReqRepAssumption DEF ReqInv, ReqTypes, Q!Assumption
<1>3. ReqTypes' /\ RequestAtHand'
  BY <1>1, <1>2 DEF ReqInv, ReqTypes, RequestAtHand
<1>4. \A c \in Clients : NothingOnItsWay(c)' /\ HasAsked(c)' /\ ReplyIsFresh(c)'
  BY <1>1, <1>2, ReqSame
<1> QED BY <1>3, <1>4 DEF ReqInv

\* ReqInv is inductive.
LEMMA ReqNext == ReqInv /\ [Q!Next]_(Q!vars) => ReqInv'
<1> SUFFICES ASSUME ReqInv, [Q!Next]_(Q!vars) PROVE ReqInv'
  OBVIOUS
<1>1. CASE Q!Listen \/ Q!Ignore \/ Q!ServerThrows \/ Q!RestartServer
  BY <1>1, ReqServer
<1>2. CASE Q!Answer
  BY <1>2, ReqAnswer
<1>3. CASE Q!Tick
  BY <1>3, ReqTick
<1>4. ASSUME NEW c \in Clients,
             \/ Q!Recv(c)
             \/ Q!Send(c) \/ Q!Receive(c) \/ Q!End(c)
             \/ Q!Arrive(c) \/ Q!Lose(c) \/ Q!Resend(c)
      PROVE  ReqInv'
  BY <1>4, ReqRecv, ReqSend, ReqReceive, ReqEnd, ReqCopies
<1>5. CASE UNCHANGED Q!vars
  <2>1. UNCHANGED <<now, rep_server, buf, arrived, route, req_client, body, copies, reply,
                    asked, date>>
    BY <1>5 DEF Q!vars, Q!serverVars, Q!clientVars
  <2>2. ReqTypes' /\ RequestAtHand'
    BY <2>1 DEF ReqInv, ReqTypes, RequestAtHand
  <2>3. \A c \in Clients : NothingOnItsWay(c)' /\ HasAsked(c)' /\ ReplyIsFresh(c)'
    BY <2>1 DEF ReqInv, NothingOnItsWay, HasAsked, ReplyIsFresh
  <2> QED BY <2>2, <2>3 DEF ReqInv
<1> QED BY <1>1, <1>2, <1>3, <1>4, <1>5 DEF Q!Next

\* ReqInv has the types.
LEMMA ReqTypeOK == ReqInv => Q!TypeOK
<1> SUFFICES ASSUME ReqInv PROVE Q!TypeOK
  OBVIOUS
<1>1. Q!Byte = Byte
  BY DEF Q!Byte, Byte
<1>2. ASSUME NEW c \in Clients
      PROVE  /\ req_client[c] \in {"start", "recv", "done"}
             /\ req_client[c] = "start" =>
                  body[c] = Null /\ copies[c] = 0 /\ c \notin arrived
             /\ req_client[c] # "start" => body[c] \in Seq(Byte) /\ asked[c] \in Int
             /\ {reply[c]} \subseteq Seq(Byte) \cup {Null}
  <2>1. now \in Int /\ Start \in Int
    BY ReqRepAssumption DEF ReqInv, ReqTypes, Q!Assumption
  <2>2. req_client[c] # "start" => body[c] \in Seq(Byte) /\ asked[c] \in Int
    BY <2>1 DEF ReqInv, HasAsked
  <2> QED BY <2>2 DEF ReqInv, ReqTypes, NothingOnItsWay
<1> QED BY <1>1, <1>2 DEF ReqInv, ReqTypes, Q!TypeOK

\* ReqInv says that dates are fresh, and only for who asked for them.
LEMMA ReqDates == ReqInv => Q!OnlyDateRequestsAnswered /\ Q!DateIsFresh
<1> SUFFICES ASSUME ReqInv, NEW c \in Clients
             PROVE  /\ reply[c] # Null => body[c] = Q!Command
                    /\ req_client[c] = "done" =>
                         date[c] # Null /\ asked[c] <= date[c] /\ date[c] <= now
  BY DEF Q!OnlyDateRequestsAnswered, Q!DateIsFresh
<1>1. now \in Int /\ Start \in Int /\ Null \notin Int
  BY ReqRepAssumption DEF ReqInv, ReqTypes, Q!Assumption
<1>2. req_client[c] = "done" => asked[c] \in Start .. now /\ date[c] \in asked[c] .. now
  BY DEF ReqInv, HasAsked
<1>3. req_client[c] = "done" =>
        date[c] \in Int /\ asked[c] <= date[c] /\ date[c] <= now
  BY <1>1, <1>2
<1> QED BY <1>1, <1>3 DEF ReqInv, ReplyIsFresh

-----------------------------------------------------------------------------
(* The programs, each started by its user.                                 *)

\* A step of the machine is a step of HttpClient, or leaves it alone.
LEMMA HttpSteps == [Next]_vars => [H!Next]_(H!vars)
<1>1. CASE UNCHANGED http_client
  BY <1>1 DEF http_client, H!vars, H!aio, H!buffer
<1>2. CASE UNCHANGED vars
  BY <1>1, <1>2 DEF vars
<1> QED BY <1>1, <1>2 DEF Next

\* The same for Perf
LEMMA PerfSteps == [Next]_vars => [P!Next]_(P!vars)
<1>1. CASE UNCHANGED perf
  BY <1>1 DEF perf, P!vars, P!inputs
<1>2. CASE UNCHANGED vars
  BY <1>1, <1>2 DEF vars
<1> QED BY <1>1, <1>2 DEF Next

\* The same for RestMain
LEMMA RestSteps == [Next]_vars => [R!Next]_(R!vars)
<1>1. CASE UNCHANGED rest
  BY <1>1 DEF rest, R!vars, R!server, R!ended
<1>2. CASE UNCHANGED vars
  BY <1>1, <1>2 DEF vars
<1> QED BY <1>1, <1>2 DEF Next

\* The HTTP client's invariant, whatever the server answers
THEOREM HttpAlways == Spec => []HttpInv
<1>1. Init => HttpInv
  <2>1. Init => H!Init
    BY DEF Init
  <2> QED BY <2>1, HttpInit
<1>2. HttpInv /\ [Next]_vars => HttpInv'
  BY HttpSteps, HttpNext
<1> QED BY <1>1, <1>2, PTL DEF Spec

\* The invariant of the perf programs, for every test, deployment, size and
\* count, timely or not
THEOREM PerfAlways == Spec => []PerfInv
<1>1. Init => PerfInv
  BY PerfInit DEF Init
<1>2. PerfInv /\ [Next]_vars => PerfInv'
  BY PerfSteps, PerfNext
<1> QED BY <1>1, <1>2, PTL DEF Spec

\* The invariant of the REST demo's main, for every verb and limit
THEOREM RestAlways == Spec => []RestInv
<1>1. Init => RestInv
  <2>1. Init => R!Init
    BY DEF Init
  <2> QED BY <2>1, RestInit
<1>2. RestInv /\ [Next]_vars => RestInv'
  BY RestSteps, RestNext
<1> QED BY <1>1, <1>2, PTL DEF Spec

\* HTTP client: an operation never outlives the client, request,
\* response or buffer that it uses, also when main returns early or throws.
THEOREM HttpObjectsAlive == Spec => []ObjectsOutliveOperations
<1>1. HttpInv => ObjectsOutliveOperations
  BY HttpObjects DEF ObjectsOutliveOperations
<1> QED BY <1>1, HttpAlways, PTL

\* HTTP client: what is printed was received, and exit code 0 means that no
\* operation failed and that as many bytes were printed as atoi read in the
\* header, none if it read 0, for every header and every body sent.
THEOREM HttpPrints == Spec => []PrintsWhatCame
<1>1. HttpInv => PrintsWhatCame
  BY DEF HttpInv, PrintsWhatCame
<1> QED BY <1>1, HttpAlways, PTL

\* perf: a latency test passes one message to and fro, and a server measures
\* the messages of the client's loop only, for every count and queue length.
THEOREM PerfMessages == Spec => []MessagesInStep
<1>1. PerfInv => MessagesInStep
  BY PerfMeasures DEF PerfInv, MessagesInStep
<1> QED BY <1>1, PerfAlways, PTL

\* REST demo: rest_start fails only when a call fails, cleans up when it does,
\* and its handler sees no request but of the kind it asked for.
THEOREM RestStart == Spec => []StartIsSafe
<1>1. RestInv => StartIsSafe
  BY DEF RestInv, StartIsSafe
<1> QED BY <1>1, RestAlways, PTL

\* REST demo: a server that was started is never released, as the thread that
\* main joins does not end.
THEOREM RestServesUntilExit == Spec => R!ServesUntilExit
<1>1. RestInv /\ [Next]_vars => [started => started' \/ exited']_(R!vars)
  <2> SUFFICES ASSUME RestInv, R!Next, started PROVE started'
    BY RestSteps
  <2> QED BY RestServes
<1>2. Spec => [][started => started' \/ exited']_(R!vars)
  BY <1>1, RestAlways, PTL DEF Spec
<1> QED BY <1>2 DEF R!ServesUntilExit

\* A step of the machine is a step of ReqRep, or leaves it alone.
LEMMA ReqSteps == [Next]_vars => [Q!Next]_(Q!vars)
<1>1. CASE UNCHANGED reqrep
  BY <1>1 DEF reqrep, Q!vars, Q!serverVars, Q!clientVars
<1>2. CASE UNCHANGED vars
  BY <1>1, <1>2 DEF vars
<1> QED BY <1>1, <1>2 DEF Next

\* The invariant of reqrep, for every number of clients, whatever is lost,
\* doubled or restarted
THEOREM ReqAlways == Spec => []ReqInv
<1>1. Init => ReqInv
  <2>1. Init => Q!Init
    BY DEF Init
  <2> QED BY <2>1, ReqInit
<1>2. ReqInv /\ [Next]_vars => ReqInv'
  BY ReqSteps, ReqNext
<1> QED BY <1>1, <1>2, PTL DEF Spec

\* Every variable of the four programs keeps its type.
THEOREM TypeCorrect == Spec => []TypeOK
<1>1. ReqInv /\ PerfInv /\ RestInv /\ HttpInv => TypeOK
  BY ReqTypeOK DEF PerfInv, PerfTypes, RestInv, HttpInv, HttpTypes, TypeOK
<1> QED BY <1>1, ReqAlways, PerfAlways, RestAlways, HttpAlways, PTL

\* reqrep: the server answers date requests only, and the date that a client
\* shows is of between its request and now, for every Base, clock and number of
\* clients: what PUT64 writes GET64 reads, a reply goes to who asked, and no
\* reply is left over from an earlier run of the client.
THEOREM ReqFresh == Spec => []FreshDatesOnRequest
<1>1. ReqInv => FreshDatesOnRequest
  BY ReqDates DEF FreshDatesOnRequest
<1> QED BY <1>1, ReqAlways, PTL
=============================================================================
