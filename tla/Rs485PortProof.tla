--------------------------- MODULE Rs485PortProof ---------------------------
(***************************************************************************)
(* The ownership of the grants of the RS-485 port and its panic, for every  *)
(* frame size, every set of lengths and capacities without zero and every   *)
(* depth of the FIFO, of a router that may poll at any time, repeat polls,  *)
(* break them off, answer late and give up, as long as no cycle overlaps    *)
(* main's re-arming of the port: Undisturbed is Spec without those overlaps,*)
(* which the code does not prevent (it asserts, as "What", that they do not *)
(* happen).  A frame of no words, or an offer of none, takes a grant whose  *)
(* channel is never started.                                                *)
(***************************************************************************)
EXTENDS Rs485Port, SequenceTheorems, TLAPS

Sent == [len : 1 .. MaxLen, tag : Tags]

\* The records keep their fields, and s2r carries frames of some length.
Shapes ==
  /\ s2r = [frames |-> s2r.frames, wr |-> s2r.wr, rd |-> s2r.rd, unresolved |-> s2r.unresolved]
  /\ r2s = [frames |-> r2s.frames, wr |-> r2s.wr, rd |-> r2s.rd, unresolved |-> r2s.unresolved]
  /\ ch3 = [on |-> ch3.on, left |-> ch3.left, got |-> ch3.got, fresh |-> ch3.fresh,
            done |-> ch3.done]
  /\ ch4 = [on |-> ch4.on, frame |-> ch4.frame, done |-> ch4.done]
  /\ s2r.frames \in Seq(Sent) /\ spiTag \in Tags
  /\ mode \in Modes /\ recvAmt \in Nat

Ch3Off == ~ch3.on /\ ~ch3.done
Ch4Off == ~ch4.on /\ ~ch4.done

\* Which grants are taken, and which channels run, in each step of the handshake.
Accepted == /\ (r2s.wr = BUSY) = (recvAmt > 0)
            /\ r2s.wr = BUSY => ch3.fresh

BetweenCycles ==
  s2r.rd # BUSY /\ r2s.wr # BUSY /\ Ch3Off /\ Ch4Off /\ ~txing /\ ~tcie

SendingFrame ==
  /\ s2r.rd = BUSY /\ ch4.on /\ s2r.frames # <<>> /\ ch4.frame = Head(s2r.frames)
  /\ Ch3Off /\ ~txing /\ ~tcie /\ Accepted

SendingNone ==
  s2r.rd # BUSY /\ Ch3Off /\ Ch4Off /\ Accepted /\ ~cmie /\ ~(txing /\ tcf)

Receiving ==
  s2r.rd # BUSY /\ r2s.wr = BUSY /\ ch3.fresh /\ recvAmt > 0 /\ Ch4Off /\ ~txing /\ ~tcie

ModeInv ==
  /\ mode \in {"RELOAD", "READY"} => BetweenCycles
  /\ mode = "SEND_DMA"    => SendingFrame
  /\ mode = "SEND_NO_DMA" => SendingNone
  /\ mode = "RECV"        => Receiving

\* Main re-arms the port between two cycles, while no channel runs.
SettingUp == {"rsRdDma", "rsRdCr", "rsRdAddr", "rsRdDir", "rsRdDirCr",
              "rsWrDma", "rsWrCr", "rsWrAddr", "rsWrDir", "rsWrDirCr"}
Enabling  == {"enLoad", "enFlush", "enStore", "enCmie", "enCr1"}

ArmingInv ==
  /\ ~Overlap
  /\ pc \in {"rsRdCr", "rsRdDirCr", "rsWrCr", "rsWrDirCr"} => "en" \notin seen
  /\ pc = "enCr1" => "tcie" \notin seen

\* A grant that is offered has its channel set up, but while main is at it.
OfferInv ==
  /\ s2r.rd = READY =>
       /\ s2r.frames # <<>>
       /\ (IF pc \in {"rsRdDma", "rsRdCr", "rsRdAddr"} THEN handed ELSE ch4.frame)
            = Head(s2r.frames)
  /\ r2s.wr = READY => ch3.fresh \/ pc \in {"rsWrDma", "rsWrCr", "rsWrAddr"}

Inv == Shapes /\ ModeInv /\ ArmingInv /\ OfferInv /\ PanicsOnlyBeforeArming

-----------------------------------------------------------------------------
\* A frame committed goes behind those that are there.
LEMMA CommitBehind ==
  ASSUME Shapes, 0 \notin SpiLens, NEW len \in SpiLens,
         SpiCommits(len) \/ SpiExchanges(len)
  PROVE  /\ s2r' = [frames |-> s2r'.frames, wr |-> s2r'.wr, rd |-> s2r'.rd,
                    unresolved |-> s2r'.unresolved]
         /\ s2r'.wr = s2r.wr /\ s2r'.rd = s2r.rd
         /\ s2r'.frames \in Seq(Sent) /\ s2r'.frames # <<>> /\ spiTag' \in Tags
         /\ s2r.frames # <<>> => Head(s2r'.frames) = Head(s2r.frames)
<1> DEFINE f == [len |-> len, tag |-> spiTag]
<1>1. f \in Sent
  <2>1. len \in 1 .. MaxLen
    BY Rs485Assumption, SMT
  <2> QED BY <2>1 DEF Shapes, Sent
<1> HIDE DEF f
<1> DEFINE g == Append(s2r.frames, f)
<1>2. s2r' = [frames |-> g, wr |-> s2r.wr, rd |-> s2r.rd, unresolved |-> FALSE]
  BY DEF SpiCommits, SpiExchanges, Shapes, f
<1>3. /\ g \in Seq(Sent) /\ g # <<>>
      /\ s2r.frames # <<>> => Head(g) = Head(s2r.frames)
  BY <1>1, AppendProperties, SMT DEF Shapes
<1>4. spiTag' \in Tags
  BY DEF SpiCommits, SpiExchanges, NextTag, Tags
<1> HIDE DEF g
<1>5. s2r'.frames = g /\ s2r'.wr = s2r.wr /\ s2r'.rd = s2r.rd /\ s2r'.unresolved = FALSE
  BY <1>2
<1>6. s2r' = [frames |-> s2r'.frames, wr |-> s2r'.wr, rd |-> s2r'.rd,
              unresolved |-> s2r'.unresolved]
  BY <1>2, <1>5
<1> QED BY <1>3, <1>4, <1>5, <1>6

\* The end of a transmission begins to receive, or ends the cycle.
LEMMA StartRecvFacts ==
  ASSUME Shapes, Accepted, Ch3Off, StartRecv
  PROVE  /\ ch3' = [on |-> ch3'.on, left |-> ch3'.left, got |-> ch3'.got, fresh |-> ch3'.fresh,
                    done |-> ch3'.done]
         /\ ch3'.fresh = ch3.fresh
         /\ \/ mode' = "RELOAD" /\ r2s.wr # BUSY /\ ~ch3'.on /\ ~ch3'.done
            \/ mode' = "RECV" /\ r2s.wr = BUSY /\ ch3.fresh /\ recvAmt > 0
<1>1. CASE recvAmt = 0
  <2>1. mode' = "RELOAD" /\ ch3' = ch3
    BY <1>1 DEF StartRecv
  <2>2. r2s.wr # BUSY
    BY <1>1, SMT DEF Accepted
  <2> QED BY <2>1, <2>2 DEF Ch3Off, Shapes
<1>2. CASE recvAmt # 0
  <2>1. mode' = "RECV"
    BY <1>2 DEF StartRecv
  <2>2. ch3' = [on |-> TRUE, left |-> ch3'.left, got |-> ch3'.got, fresh |-> ch3.fresh,
                done |-> ch3'.done]
    BY <1>2 DEF StartRecv, Shapes
  <2>3. /\ ch3' = [on |-> ch3'.on, left |-> ch3'.left, got |-> ch3'.got, fresh |-> ch3'.fresh,
                   done |-> ch3'.done]
        /\ ch3'.fresh = ch3.fresh
    BY <2>2
  <2>4. recvAmt > 0
    BY <1>2, SMT DEF Shapes
  <2>5. r2s.wr = BUSY /\ ch3.fresh
    BY <2>4 DEF Accepted
  <2> QED BY <2>1, <2>3, <2>4, <2>5
<1> QED BY <1>1, <1>2

\* The invariant of the handshake holds to begin with, ...
LEMMA InvInit == Init => Inv
<1> USE DEF IDLE, READY, BUSY
<1> SUFFICES ASSUME Init PROVE Inv
  OBVIOUS
<1>1. Shapes
  BY EmptySeq DEF Init, PipesInit, EmptyPipe, Shapes, Tags, Modes
<1> QED BY <1>1 DEF Init, PipesInit, EmptyPipe, Inv, ModeInv, BetweenCycles, Ch3Off, Ch4Off,
                    ArmingInv, Overlap, Rearming, OfferInv, PanicsOnlyBeforeArming

\* ... and every step keeps it.
LEMMA InvKept ==
  ASSUME 0 \notin TxCaps \cup SpiLens
  PROVE  Inv /\ [Next /\ ~Overlap']_vars => Inv'
<1> USE DEF IDLE, READY, BUSY
<1> SUFFICES ASSUME Inv, [Next /\ ~Overlap']_vars PROVE Inv'
  OBVIOUS
<1>0. Shapes /\ ModeInv /\ ArmingInv /\ OfferInv /\ PanicsOnlyBeforeArming
  BY DEF Inv
<1>a. ~Overlap'
  <2>1. CASE UNCHANGED vars
    <3>1. UNCHANGED <<pc, didRestoreRs485, mode>>
      BY <2>1 DEF vars, loopVars, usartVars
    <3> QED BY <1>0, <3>1 DEF ArmingInv, Overlap, Rearming, ShouldReload
  <2> QED BY <2>1
\* Every handler but two runs in the middle of a cycle, away from main's re-arming.
<1>1. CASE IdleStartTimeout
  <2>1. UNCHANGED <<pc, mode, recvAmt, ch4, handed, spiTag, seen, panicked, txing, tcie, cmf>>
        /\ mode = "READY" /\ ~panicked /\ Irq /\ ~cmie'
    BY <1>1 DEF IdleStartTimeout, loopVars, routerVars
  <2>2. BetweenCycles
    BY <1>0, <2>1 DEF ModeInv
  <2>3. s2r' = [frames |-> s2r.frames, wr |-> s2r.wr, unresolved |-> s2r.unresolved,
                rd |-> IF s2r.rd = READY THEN IDLE ELSE s2r.rd]
    BY <1>0, <1>1, <2>2 DEF IdleStartTimeout, PrepRd, AbortRd, Shapes, BetweenCycles
  <2>4. r2s' = [frames |-> r2s.frames, rd |-> r2s.rd, unresolved |-> r2s'.unresolved,
                wr |-> IF r2s.wr = READY THEN IDLE ELSE r2s.wr]
    BY <1>0, <1>1, <2>2 DEF IdleStartTimeout, PrepWr, AbortWr, Shapes, BetweenCycles
  <2>5. ch3' = [on |-> ch3.on, left |-> ch3.left, got |-> ch3.got, fresh |-> FALSE,
                done |-> ch3.done]
    BY <1>0, <1>1 DEF IdleStartTimeout, Shapes
  <2>6. Shapes'
    BY <1>0, <2>1, <2>3, <2>4, <2>5 DEF Shapes
  <2>7. BetweenCycles'
    BY <2>1, <2>2, <2>3, <2>4, <2>5 DEF BetweenCycles, Ch3Off, Ch4Off
  <2>8. ModeInv' /\ ArmingInv' /\ PanicsOnlyBeforeArming'
    BY <1>0, <1>a, <2>1, <2>7 DEF ModeInv, ArmingInv, PanicsOnlyBeforeArming
  <2>9. OfferInv'
    BY <2>3, <2>4 DEF OfferInv
  <2> QED BY <2>6, <2>8, <2>9 DEF Inv
<1>2. ASSUME NEW rRxCap \in RxCaps, NEW rTxCap \in TxCaps, IdleStartAnswer(rRxCap, rTxCap)
      PROVE  Inv'
  <2> DEFINE sends   == rRxCap >= TxCap
             accepts == rTxCap <= RxCap
  <2>1. UNCHANGED <<pc, handed, spiTag, seen, panicked, cmf>>
        /\ mode = "READY" /\ ~panicked /\ Irq /\ ~cmie' /\ ~tcf'
    BY <1>2 DEF IdleStartAnswer, loopVars
  <2>2. BetweenCycles
    BY <1>0, <2>1 DEF ModeInv
  <2>3. pc \notin SettingUp \cup Enabling
    <3>1. mode' \in {"SEND_DMA", "SEND_NO_DMA"}
      BY <1>2 DEF IdleStartAnswer
    <3>2. ~Rearming'
      BY <1>a, <3>1 DEF Overlap, ShouldReload
    <3> QED BY <2>1, <3>2 DEF Rearming, SettingUp, Enabling
  \* The capacities announced, and what the slots offer.
  <2>4. /\ rRxCap \in Nat /\ rTxCap \in Nat /\ rTxCap > 0 /\ MaxLen \in Nat
        /\ s2r.rd = READY => TxCap \in Nat /\ TxCap > 0
        /\ s2r.rd # READY => TxCap = 0
        /\ RxCap = (IF r2s.wr = READY THEN MaxLen ELSE 0)
    <3>1. rRxCap \in Nat /\ rTxCap \in Nat /\ rTxCap > 0 /\ MaxLen \in Nat
      BY Rs485Assumption, SMT
    <3>2. ASSUME s2r.rd = READY PROVE TxCap \in Nat /\ TxCap > 0
      <4>1. TxCap = Head(s2r.frames).len
        BY <3>2 DEF TxCap
      <4>2. Head(s2r.frames) \in Sent
        BY <1>0, <3>2, HeadTailProperties DEF Shapes, OfferInv
      <4>3. TxCap \in 1 .. MaxLen
        BY <4>1, <4>2 DEF Sent
      <4> QED BY <4>3, <3>1, SMT
    <3> QED BY <3>1, <3>2 DEF TxCap, RxCap
  <2>5. /\ ~sends => s2r.rd = READY
        /\ accepts => r2s.wr = READY
        /\ (sends /\ TxCap # 0) = (sends /\ s2r.rd = READY)
    BY <2>4, SMT
  <2> HIDE DEF sends, accepts
  <2>6. s2r' = [frames |-> s2r.frames, wr |-> s2r.wr, unresolved |-> s2r.unresolved,
                rd |-> IF s2r.rd # READY THEN s2r.rd ELSE IF sends THEN BUSY ELSE IDLE]
    BY <1>0, <1>2, <2>2, <2>5 DEF IdleStartAnswer, PrepRd, AbortRd, Shapes, BetweenCycles, sends
  <2>7. r2s' = [frames |-> r2s.frames, rd |-> r2s.rd, unresolved |-> r2s'.unresolved,
                wr |-> IF r2s.wr # READY THEN r2s.wr ELSE IF accepts THEN BUSY ELSE IDLE]
    BY <1>0, <1>2, <2>2, <2>5 DEF IdleStartAnswer, PrepWr, AbortWr, Shapes, BetweenCycles, accepts
  <2>8. ch3' = [on |-> ch3.on, left |-> ch3.left, got |-> ch3.got,
                fresh |-> ch3.fresh /\ accepts, done |-> ch3.done]
    BY <1>0, <1>2 DEF IdleStartAnswer, Shapes, accepts
  <2>9. recvAmt' = (IF accepts THEN rTxCap ELSE 0)
    BY <1>2 DEF IdleStartAnswer, accepts
  <2>10. IF sends /\ s2r.rd = READY
           THEN /\ mode' = "SEND_DMA" /\ tcie' = tcie /\ txing' = txing
                /\ ch4' = [on |-> TRUE, frame |-> ch4.frame, done |-> FALSE]
           ELSE mode' = "SEND_NO_DMA" /\ ch4' = ch4
    <3>1. (IF sends THEN TxCap ELSE 0) # 0 <=> sends /\ s2r.rd = READY
      BY <2>5
    <3>2. IF (IF sends THEN TxCap ELSE 0) # 0
            THEN /\ mode' = "SEND_DMA" /\ ch4' = [ch4 EXCEPT !.on = TRUE, !.done = FALSE]
                 /\ UNCHANGED <<tcie, txing>>
            ELSE mode' = "SEND_NO_DMA" /\ UNCHANGED ch4
      BY <1>2 DEF IdleStartAnswer, sends
    <3>3. CASE sends /\ s2r.rd = READY
      BY <3>1, <3>2, <3>3, <1>0 DEF Shapes
    <3>4. CASE ~(sends /\ s2r.rd = READY)
      BY <3>1, <3>2, <3>4
    <3> QED BY <3>3, <3>4
  <2>11. Shapes'
    <3>1. recvAmt' \in Nat /\ mode' \in Modes
      BY <2>4, <2>9, <2>10 DEF Modes
    <3>2. s2r' = [frames |-> s2r'.frames, wr |-> s2r'.wr, rd |-> s2r'.rd,
                  unresolved |-> s2r'.unresolved] /\ s2r'.frames = s2r.frames
      BY <2>6
    <3>3. r2s' = [frames |-> r2s'.frames, wr |-> r2s'.wr, rd |-> r2s'.rd,
                  unresolved |-> r2s'.unresolved]
      BY <2>7
    <3>4. ch3' = [on |-> ch3'.on, left |-> ch3'.left, got |-> ch3'.got, fresh |-> ch3'.fresh,
                  done |-> ch3'.done]
      BY <2>8
    <3>5. ch4' = [on |-> ch4'.on, frame |-> ch4'.frame, done |-> ch4'.done]
      BY <1>0, <2>10 DEF Shapes
    <3> QED BY <1>0, <2>1, <3>1, <3>2, <3>3, <3>4, <3>5 DEF Shapes
  <2>12. Accepted' /\ Ch3Off'
    <3>1. ~ch3'.on /\ ~ch3'.done /\ ch3'.fresh = (ch3.fresh /\ accepts)
      BY <2>2, <2>8 DEF BetweenCycles, Ch3Off
    <3>2. CASE accepts
      <4>1. r2s'.wr = BUSY /\ recvAmt' = rTxCap
        BY <2>5, <2>7, <2>9, <3>2
      <4>2. ch3.fresh
        BY <1>0, <2>3, <2>5, <3>2 DEF OfferInv, SettingUp
      <4> QED BY <2>4, <3>1, <3>2, <4>1, <4>2 DEF Accepted, Ch3Off
    <3>3. CASE ~accepts
      <4>1. r2s'.wr # BUSY /\ recvAmt' = 0
        BY <2>2, <2>7, <2>9, <3>3 DEF BetweenCycles
      <4>2. ~(recvAmt' > 0)
        BY <4>1, SMT
      <4> QED BY <3>1, <4>1, <4>2 DEF Accepted, Ch3Off
    <3> QED BY <3>2, <3>3
  <2>13. ModeInv'
    <3>1. CASE sends /\ s2r.rd = READY
      <4>1. /\ mode' = "SEND_DMA" /\ ~tcie' /\ ~txing' /\ ch4'.on = TRUE /\ ch4'.frame = ch4.frame
        BY <2>2, <2>10, <3>1 DEF BetweenCycles
      <4>2. s2r'.rd = BUSY /\ s2r'.frames = s2r.frames
        BY <2>6, <3>1
      <4>3. s2r.frames # <<>> /\ ch4.frame = Head(s2r.frames)
        BY <1>0, <2>3, <3>1 DEF OfferInv, SettingUp
      <4> QED BY <2>12, <4>1, <4>2, <4>3 DEF ModeInv, SendingFrame
    <3>2. CASE ~(sends /\ s2r.rd = READY)
      <4>1. s2r'.rd # BUSY
        BY <2>2, <2>6, <3>2 DEF BetweenCycles
      <4> QED BY <2>1, <2>2, <2>10, <2>12, <3>2, <4>1 DEF ModeInv, SendingNone, BetweenCycles, Ch4Off
    <3> QED BY <3>1, <3>2
  <2>14. ArmingInv' /\ PanicsOnlyBeforeArming'
    <3>1. ArmingInv'
      BY <1>0, <1>a, <2>1 DEF ArmingInv
    <3> QED BY <2>1, <3>1 DEF PanicsOnlyBeforeArming
  <2>15. OfferInv'
    BY <2>6, <2>7 DEF OfferInv
  <2> QED BY <2>11, <2>13, <2>14, <2>15 DEF Inv
<1>3. CASE DmaTxComplete
  <2>1. UNCHANGED <<pc, r2s, recvAmt, handed, spiTag, seen, panicked, txing, tcie>>
        /\ mode = "SEND_DMA" /\ ~panicked /\ StartRecv
        /\ s2r' = CompleteRd(s2r) /\ ch4' = [ch4 EXCEPT !.on = FALSE, !.done = FALSE]
    BY <1>3 DEF DmaTxComplete, loopVars, routerVars
  <2>2. SendingFrame
    BY <1>0, <2>1 DEF ModeInv
  <2>3. s2r' = [frames |-> Tail(s2r.frames), wr |-> s2r.wr, rd |-> IDLE,
                unresolved |-> s2r.unresolved]
    BY <1>0, <2>1, <2>2 DEF CompleteRd, Shapes, SendingFrame
  <2>4. Tail(s2r.frames) \in Seq(Sent)
    BY <1>0, <2>2, HeadTailProperties DEF Shapes, SendingFrame
  <2>5. ch4' = [on |-> FALSE, frame |-> ch4.frame, done |-> FALSE]
    BY <1>0, <2>1 DEF Shapes
  <2>6. /\ ch3' = [on |-> ch3'.on, left |-> ch3'.left, got |-> ch3'.got,
                   fresh |-> ch3'.fresh, done |-> ch3'.done]
        /\ ch3'.fresh = ch3.fresh
        /\ \/ mode' = "RELOAD" /\ r2s.wr # BUSY /\ ~ch3'.on /\ ~ch3'.done
           \/ mode' = "RECV" /\ r2s.wr = BUSY /\ ch3.fresh /\ recvAmt > 0
    BY <1>0, <2>1, <2>2, StartRecvFacts DEF SendingFrame
  <2>7. Shapes'
    <3>1. s2r' = [frames |-> s2r'.frames, wr |-> s2r'.wr, rd |-> s2r'.rd,
                  unresolved |-> s2r'.unresolved] /\ s2r'.frames = Tail(s2r.frames)
      BY <2>3
    <3>2. ch4' = [on |-> ch4'.on, frame |-> ch4'.frame, done |-> ch4'.done]
      BY <2>5
    <3> QED BY <1>0, <2>1, <2>4, <2>6, <3>1, <3>2 DEF Shapes, Modes
  <2>8. ModeInv'
    BY <2>1, <2>2, <2>3, <2>5, <2>6 DEF ModeInv, SendingFrame, BetweenCycles, Receiving, Ch3Off,
                                      Ch4Off
  <2>9. ArmingInv' /\ PanicsOnlyBeforeArming'
    BY <1>0, <1>a, <2>1 DEF ArmingInv, PanicsOnlyBeforeArming
  <2>10. OfferInv'
    BY <1>0, <2>1, <2>3, <2>6 DEF OfferInv
  <2> QED BY <2>7, <2>8, <2>9, <2>10 DEF Inv
<1>4. CASE NoDmaTxComplete
  <2>1. UNCHANGED <<pc, s2r, r2s, recvAmt, ch4, handed, spiTag, seen, panicked, txing>>
        /\ mode = "SEND_NO_DMA" /\ ~panicked /\ StartRecv /\ ~tcie'
    BY <1>4 DEF NoDmaTxComplete, loopVars, routerVars
  <2>2. SendingNone /\ ~txing
    <3>1. SendingNone
      BY <1>0, <2>1 DEF ModeInv
    <3>2. Irq
      BY <1>4 DEF NoDmaTxComplete
    <3> QED BY <3>1, <3>2 DEF SendingNone, Ch3Off, Ch4Off, Irq
  <2>3. /\ ch3' = [on |-> ch3'.on, left |-> ch3'.left, got |-> ch3'.got,
                   fresh |-> ch3'.fresh, done |-> ch3'.done]
        /\ ch3'.fresh = ch3.fresh
        /\ \/ mode' = "RELOAD" /\ r2s.wr # BUSY /\ ~ch3'.on /\ ~ch3'.done
           \/ mode' = "RECV" /\ r2s.wr = BUSY /\ ch3.fresh /\ recvAmt > 0
    BY <1>0, <2>1, <2>2, StartRecvFacts DEF SendingNone
  <2>4. Shapes'
    BY <1>0, <2>1, <2>3 DEF Shapes, Modes
  <2>5. ModeInv'
    BY <2>1, <2>2, <2>3 DEF ModeInv, SendingNone, BetweenCycles, Receiving, Ch3Off, Ch4Off
  <2>6. ArmingInv' /\ PanicsOnlyBeforeArming'
    BY <1>0, <1>a, <2>1 DEF ArmingInv, PanicsOnlyBeforeArming
  <2>7. OfferInv'
    BY <1>0, <2>1, <2>3 DEF OfferInv
  <2> QED BY <2>4, <2>5, <2>6, <2>7 DEF Inv
<1>5. CASE RecvComplete
  <2>1. UNCHANGED <<pc, s2r, ch4, handed, spiTag, seen, panicked, txing, tcie>>
        /\ mode = "RECV" /\ mode' = "RELOAD" /\ ~panicked /\ recvAmt' = 0
    BY <1>5 DEF RecvComplete, loopVars, routerVars
  <2>2. Receiving
    BY <1>0, <2>1 DEF ModeInv
  <2>3. r2s' = [frames |-> r2s'.frames, wr |-> IDLE, rd |-> r2s.rd, unresolved |-> FALSE]
    BY <1>0, <1>5, <2>2 DEF RecvComplete, CompleteWr, Shapes, Receiving
  <2>4. ch3' = [on |-> FALSE, left |-> ch3.left, got |-> ch3.got, fresh |-> FALSE, done |-> FALSE]
    BY <1>0, <1>5 DEF RecvComplete, Shapes
  <2>5. Shapes'
    BY <1>0, <2>1, <2>3, <2>4 DEF Shapes, Modes
  <2>6. ModeInv'
    BY <2>1, <2>2, <2>3, <2>4 DEF ModeInv, BetweenCycles, Receiving, Ch3Off, Ch4Off
  <2>7. ArmingInv' /\ PanicsOnlyBeforeArming'
    BY <1>0, <1>a, <2>1 DEF ArmingInv, PanicsOnlyBeforeArming
  <2>8. OfferInv'
    BY <1>0, <2>1, <2>3 DEF OfferInv
  <2> QED BY <2>5, <2>6, <2>7, <2>8 DEF Inv
\* Nothing is enabled between the cycles but the interrupt of a poll.
<1>6. CASE PanicInReload
  <2>1. mode = "RELOAD" /\ Irq
    BY <1>6 DEF PanicInReload
  <2>2. cmie
    BY <1>0, <2>1 DEF ModeInv, BetweenCycles, Ch3Off, Ch4Off, Irq
  <2>3. UNCHANGED <<s2r, r2s, pc, mode, recvAmt, cmf, cmie, tcie, tcf, txing, ch3, ch4, handed,
                    seen, spiTag>>
    BY <1>6 DEF PanicInReload, loopVars, usartVars, dmaVars, routerVars
  <2>4. PanicsOnlyBeforeArming'
    BY <2>1, <2>2, <2>3 DEF PanicsOnlyBeforeArming
  <2>5. Shapes' /\ ModeInv'
    BY <1>0, <2>3 DEF Shapes, ModeInv, BetweenCycles, SendingFrame, SendingNone, Receiving,
                      Accepted, Ch3Off, Ch4Off
  <2>6. ArmingInv' /\ OfferInv'
    BY <1>0, <1>a, <2>3 DEF ArmingInv, OfferInv
  <2> QED BY <2>4, <2>5, <2>6 DEF Inv
\* Main looks for grants to restore ...
<1>7. CASE Check
  <2>1. UNCHANGED <<s2r, r2s, mode, recvAmt, cmf, cmie, tcie, tcf, txing, ch3, ch4, handed,
                    seen, spiTag, panicked>> /\ ~Irq /\ pc = "check"
    BY <1>7 DEF Check, MainAt, usartVars, dmaVars, routerVars
  <2>2. \/ pc' = "rsRd" /\ mode \in {"RELOAD", "READY"}
        \/ pc' \in {"check", "spiWr"}
    BY <1>7 DEF Check, ShouldReload, AfterRs485, AfterSpi, AfterUnmask
  <2>3. Shapes' /\ ModeInv' /\ PanicsOnlyBeforeArming'
    BY <1>0, <2>1 DEF Shapes, ModeInv, BetweenCycles, SendingFrame, SendingNone, Receiving,
                      Accepted, Ch3Off, Ch4Off, PanicsOnlyBeforeArming
  <2>4. ArmingInv' /\ OfferInv'
    BY <1>0, <1>a, <2>1, <2>2 DEF ArmingInv, OfferInv
  <2> QED BY <2>3, <2>4 DEF Inv
<1>8. CASE NothingToSend \/ NoRoomOrNotIdle
  <2>1. UNCHANGED <<r2s, mode, recvAmt, cmf, cmie, tcie, tcf, txing, ch3, ch4, handed, seen,
                    spiTag, panicked>>
    BY <1>8 DEF NothingToSend, NoRoomOrNotIdle, usartVars, dmaVars, routerVars
  <2>2. pc \in {"rsRd", "rsWr"} /\ pc' \in {"rsWr", "check", "spiWr", "unmask", "enLoad"}
    BY <1>8 DEF NothingToSend, NoRoomOrNotIdle, MainAt, AfterRs485, AfterSpi, AfterUnmask
  <2>3. s2r' = [frames |-> s2r.frames, wr |-> s2r.wr, rd |-> s2r.rd,
                unresolved |-> s2r'.unresolved]
    <3>1. s2r' = s2r \/ s2r' = [s2r EXCEPT !.unresolved = FALSE]
      BY <1>8 DEF NothingToSend, NoRoomOrNotIdle, ServiceRdNone
    <3>2. CASE s2r' = s2r
      BY <1>0, <3>2 DEF Shapes
    <3>3. CASE s2r' = [s2r EXCEPT !.unresolved = FALSE]
      <4>1. s2r' = [frames |-> s2r.frames, wr |-> s2r.wr, rd |-> s2r.rd, unresolved |-> FALSE]
        BY <1>0, <3>3 DEF Shapes
      <4> QED BY <4>1
    <3> QED BY <3>1, <3>2, <3>3
  <2>4. s2r'.frames = s2r.frames /\ s2r'.wr = s2r.wr /\ s2r'.rd = s2r.rd
    BY <2>3
  <2>5. Shapes' /\ ModeInv' /\ PanicsOnlyBeforeArming'
    BY <1>0, <2>1, <2>3, <2>4 DEF Shapes, ModeInv, BetweenCycles, SendingFrame, SendingNone,
                      Receiving, Accepted, Ch3Off, Ch4Off, PanicsOnlyBeforeArming
  <2>6. ArmingInv' /\ OfferInv'
    BY <1>0, <1>a, <2>1, <2>2, <2>4 DEF ArmingInv, OfferInv
  <2> QED BY <2>5, <2>6 DEF Inv
\* ... and restores one only between two cycles.
<1>20. CASE RestoreRd \/ RestoreWr
  <2>1. UNCHANGED <<mode, recvAmt, cmf, cmie, tcie, tcf, txing, ch3, ch4, seen, spiTag, panicked>>
        /\ pc' \in {"rsRdDma", "rsWrDma"}
    BY <1>20 DEF RestoreRd, RestoreWr, usartVars, dmaVars, routerVars
  <2>2. mode \in {"RELOAD", "READY"} /\ BetweenCycles
    <3>1. mode' \in {"RELOAD", "READY"}
      BY <1>a, <2>1 DEF Overlap, Rearming, ShouldReload
    <3> QED BY <1>0, <2>1, <3>1 DEF ModeInv
  <2>3. \/ /\ RestoreRd /\ pc' = "rsRdDma" /\ handed' = Head(s2r.frames) /\ s2r.frames # <<>>
           /\ s2r' = [frames |-> s2r.frames, wr |-> s2r.wr, rd |-> READY,
                      unresolved |-> s2r.unresolved]
           /\ r2s' = r2s
        \/ /\ RestoreWr /\ pc = "rsWr" /\ pc' = "rsWrDma" /\ handed' = handed /\ s2r' = s2r
           /\ r2s' = [frames |-> r2s.frames, wr |-> READY, rd |-> r2s.rd,
                      unresolved |-> r2s.unresolved]
    BY <1>0, <1>20 DEF RestoreRd, RestoreWr, ServiceRd, ServiceWr, CanGrantRd, MainAt, Shapes
  <2>4. /\ s2r' = [frames |-> s2r'.frames, wr |-> s2r'.wr, rd |-> s2r'.rd,
                   unresolved |-> s2r'.unresolved]
        /\ s2r'.frames = s2r.frames /\ s2r'.rd # BUSY
    <3>1. CASE s2r' = [frames |-> s2r.frames, wr |-> s2r.wr, rd |-> READY,
                       unresolved |-> s2r.unresolved]
      BY <3>1
    <3>2. CASE s2r' = s2r
      BY <1>0, <2>2, <3>2 DEF Shapes, BetweenCycles
    <3> QED BY <2>3, <3>1, <3>2
  <2>5. /\ r2s' = [frames |-> r2s'.frames, wr |-> r2s'.wr, rd |-> r2s'.rd,
                   unresolved |-> r2s'.unresolved]
        /\ r2s'.wr # BUSY
    <3>1. CASE r2s' = [frames |-> r2s.frames, wr |-> READY, rd |-> r2s.rd,
                       unresolved |-> r2s.unresolved]
      BY <3>1
    <3>2. CASE r2s' = r2s
      BY <1>0, <2>2, <3>2 DEF Shapes, BetweenCycles
    <3> QED BY <2>3, <3>1, <3>2
  <2>6. Shapes'
    BY <1>0, <2>1, <2>4, <2>5 DEF Shapes
  <2>7. ModeInv' /\ PanicsOnlyBeforeArming'
    BY <1>0, <2>1, <2>2, <2>4, <2>5 DEF ModeInv, BetweenCycles, Ch3Off, Ch4Off,
                                      PanicsOnlyBeforeArming
  <2>8. ArmingInv'
    BY <1>a, <2>1 DEF ArmingInv
  <2>9. OfferInv'
    <3>1. CASE RestoreRd /\ pc' = "rsRdDma"
      <4>1. s2r'.frames = s2r.frames /\ r2s' = r2s /\ handed' = Head(s2r.frames) /\ s2r.frames # <<>>
        BY <2>3, <2>4, <3>1
      <4>2. pc = "rsRd"
        BY <3>1 DEF RestoreRd, MainAt
      <4> QED BY <1>0, <2>1, <3>1, <4>1, <4>2 DEF OfferInv
    <3>2. CASE RestoreWr /\ pc' = "rsWrDma"
      <4>1. s2r' = s2r /\ pc = "rsWr"
        BY <2>3, <3>2
      <4> QED BY <1>0, <2>1, <3>2, <4>1 DEF OfferInv
    <3> QED BY <2>3, <3>1, <3>2
  <2> QED BY <2>6, <2>7, <2>8, <2>9 DEF Inv
\* The channels are set up while they are off.
<1>9. CASE SetUpCh4Read \/ SetUpCh4Write \/ SetUpCh4
  <2>1. UNCHANGED <<s2r, r2s, mode, recvAmt, cmf, cmie, tcie, tcf, txing, ch3, spiTag, panicked>>
        /\ pc \in {"rsRdDma", "rsRdCr", "rsRdAddr", "rsRdDir", "rsRdDirCr"}
    BY <1>9 DEF SetUpCh4Read, SetUpCh4Write, SetUpCh4, MainAt, usartVars, dmaVars, routerVars
  <2>2. mode \in {"RELOAD", "READY"} /\ BetweenCycles
    BY <1>0, <2>1 DEF ArmingInv, Overlap, Rearming, ShouldReload, ModeInv
  <2>3. /\ ch4' = [on |-> ch4'.on, frame |-> ch4'.frame, done |-> ch4'.done]
        /\ ~ch4'.on /\ ~ch4'.done
        /\ ch4'.frame = (IF SetUpCh4 THEN handed ELSE ch4.frame)
    <3>1. ch4 = [on |-> ch4.on, frame |-> ch4.frame, done |-> ch4.done]
      BY <1>0 DEF Shapes
    <3>2. ~ch4.on /\ ~ch4.done /\ (pc \in {"rsRdCr", "rsRdDirCr"} => "en" \notin seen)
      BY <1>0, <2>2 DEF BetweenCycles, Ch4Off, ArmingInv
    <3>3. CASE SetUpCh4Read
      BY <3>1, <3>2, <3>3 DEF SetUpCh4Read, SetUpCh4, MainAt, dmaVars
    <3>4. CASE SetUpCh4Write
      BY <3>1, <3>2, <3>4 DEF SetUpCh4Write, SetUpCh4, MainAt
    <3>5. CASE SetUpCh4
      BY <3>1, <3>2, <3>5 DEF SetUpCh4
    <3> QED BY <1>9, <3>3, <3>4, <3>5
  <2>4. \/ /\ pc \in {"rsRdDma", "rsRdDir"} /\ pc' = (IF pc = "rsRdDma" THEN "rsRdCr" ELSE "rsRdDirCr")
           /\ handed' = handed /\ "en" \notin seen' /\ ~SetUpCh4
        \/ /\ pc \in {"rsRdCr", "rsRdDirCr"} /\ pc' = (IF pc = "rsRdCr" THEN "rsRdAddr" ELSE "rsWr")
           /\ handed' = handed /\ ~SetUpCh4
        \/ pc = "rsRdAddr" /\ pc' = "rsRdDir" /\ SetUpCh4
    BY <1>9, <2>2 DEF SetUpCh4Read, SetUpCh4Write, SetUpCh4, MainAt, BetweenCycles, Ch4Off
  <2>5. Shapes' /\ ModeInv' /\ PanicsOnlyBeforeArming'
    BY <1>0, <2>1, <2>2, <2>3 DEF Shapes, ModeInv, BetweenCycles, Ch3Off, Ch4Off,
                                PanicsOnlyBeforeArming
  <2>6. ArmingInv'
    BY <1>a, <2>4 DEF ArmingInv
  <2>7. OfferInv'
    BY <1>0, <2>1, <2>3, <2>4 DEF OfferInv
  <2> QED BY <2>5, <2>6, <2>7 DEF Inv
<1>10. CASE SetUpCh3Read \/ SetUpCh3Write \/ SetUpCh3
  <2>1. UNCHANGED <<s2r, r2s, mode, recvAmt, cmf, cmie, tcie, tcf, txing, ch4, handed, spiTag,
                    panicked>>
        /\ pc \in {"rsWrDma", "rsWrCr", "rsWrAddr", "rsWrDir", "rsWrDirCr"}
    BY <1>10 DEF SetUpCh3Read, SetUpCh3Write, SetUpCh3, MainAt, usartVars, dmaVars, routerVars
  <2>2. mode \in {"RELOAD", "READY"} /\ BetweenCycles
    BY <1>0, <2>1 DEF ArmingInv, Overlap, Rearming, ShouldReload, ModeInv
  <2>3. /\ ch3' = [on |-> ch3'.on, left |-> ch3'.left, got |-> ch3'.got, fresh |-> ch3'.fresh,
                   done |-> ch3'.done]
        /\ ~ch3'.on /\ ~ch3'.done
        /\ IF SetUpCh3 THEN r2s.wr = READY => ch3'.fresh ELSE ch3'.fresh = ch3.fresh
    <3>1. ~ch3.on /\ ~ch3.done /\ (pc \in {"rsWrCr", "rsWrDirCr"} => "en" \notin seen)
      BY <1>0, <2>2 DEF BetweenCycles, Ch3Off, ArmingInv
    <3>2. CASE SetUpCh3Read
      BY <1>0, <3>1, <3>2 DEF SetUpCh3Read, SetUpCh3, MainAt, dmaVars, Shapes
    <3>3. CASE SetUpCh3Write
      BY <1>0, <3>1, <3>3 DEF SetUpCh3Write, SetUpCh3, MainAt, Shapes
    <3>4. CASE SetUpCh3
      BY <1>0, <3>1, <3>4 DEF SetUpCh3, Shapes
    <3> QED BY <1>10, <3>2, <3>3, <3>4
  <2>4. \/ /\ pc \in {"rsWrDma", "rsWrDir"} /\ pc' = (IF pc = "rsWrDma" THEN "rsWrCr" ELSE "rsWrDirCr")
           /\ "en" \notin seen' /\ ~SetUpCh3
        \/ pc = "rsWrCr" /\ pc' = "rsWrAddr" /\ ~SetUpCh3
        \/ /\ pc = "rsWrDirCr" /\ pc' \in {"check", "spiWr", "unmask", "enLoad"} /\ ~SetUpCh3
        \/ pc = "rsWrAddr" /\ pc' = "rsWrDir" /\ SetUpCh3
    BY <1>10, <2>2 DEF SetUpCh3Read, SetUpCh3Write, SetUpCh3, MainAt, BetweenCycles, Ch3Off,
                       AfterRs485, AfterSpi, AfterUnmask
  <2>5. Shapes' /\ ModeInv' /\ PanicsOnlyBeforeArming'
    BY <1>0, <2>1, <2>2, <2>3 DEF Shapes, ModeInv, BetweenCycles, Ch3Off, Ch4Off,
                                PanicsOnlyBeforeArming
  <2>6. ArmingInv'
    BY <1>a, <2>4 DEF ArmingInv
  <2>7. OfferInv'
    BY <1>0, <2>1, <2>3, <2>4 DEF OfferInv
  <2> QED BY <2>5, <2>6, <2>7 DEF Inv
<1>11. CASE EnableLoad \/ EnableFlush \/ EnableStore \/ EnableReadCr1 \/ EnableCmie
  <2>1. UNCHANGED <<s2r, r2s, recvAmt, tcf, txing, ch3, ch4, handed, spiTag>>
        /\ pc \in {"enLoad", "enFlush", "enStore", "enCmie", "enCr1"} /\ ~panicked
    BY <1>11 DEF EnableLoad, EnableFlush, EnableStore, EnableReadCr1, EnableCmie, MainAt,
                 usartVars, dmaVars, routerVars
  <2>2. mode \in {"RELOAD", "READY"} /\ BetweenCycles
    BY <1>0, <2>1 DEF ArmingInv, Overlap, Rearming, ShouldReload, ModeInv
  <2>3. panicked' = panicked /\ mode' \in {"RELOAD", "READY"} /\ ~tcie'
    <3>1. (pc = "enCr1" => "tcie" \notin seen) /\ ~tcie
      BY <1>0, <2>2 DEF ArmingInv, BetweenCycles
    <3>2. CASE EnableLoad \/ EnableFlush \/ EnableStore \/ EnableReadCr1
      BY <2>2, <3>1, <3>2 DEF EnableLoad, EnableFlush, EnableStore, EnableReadCr1, ShouldReload,
                              usartVars
    <3>3. CASE EnableCmie
      BY <2>2, <3>1, <3>3 DEF EnableCmie, MainAt
    <3> QED BY <1>11, <3>2, <3>3
  <2>4. \/ pc' \in {"enFlush", "enStore", "enCmie", "check"}
        \/ pc' = "enCr1" /\ "tcie" \notin seen'
    <3>1. ~tcie
      BY <2>2 DEF BetweenCycles
    <3> QED BY <1>11, <2>2, <3>1 DEF EnableLoad, EnableFlush, EnableStore, EnableReadCr1,
                                     EnableCmie, ShouldReload
  <2>5. Shapes' /\ ModeInv' /\ PanicsOnlyBeforeArming'
    BY <1>0, <2>1, <2>2, <2>3 DEF Shapes, Modes, ModeInv, BetweenCycles, Ch3Off, Ch4Off,
                                PanicsOnlyBeforeArming
  <2>6. ArmingInv'
    BY <1>a, <2>4 DEF ArmingInv
  <2>7. OfferInv'
    BY <1>0, <2>1, <2>4 DEF OfferInv
  <2> QED BY <2>5, <2>6, <2>7 DEF Inv
\* The ends of transmissions and the words of the router come when a step of the
\* handshake waits for them.
<1>12. CASE TxDone
  <2>1. UNCHANGED <<s2r, r2s, pc, mode, recvAmt, cmf, cmie, tcie, ch3, ch4, handed, seen, spiTag,
                    panicked>> /\ txing /\ ~txing'
    BY <1>12 DEF TxDone, loopVars, dmaVars
  <2>2. Shapes' /\ ModeInv' /\ PanicsOnlyBeforeArming'
    BY <1>0, <2>1 DEF Shapes, ModeInv, BetweenCycles, SendingFrame, SendingNone, Receiving,
                      Accepted, Ch3Off, Ch4Off, PanicsOnlyBeforeArming
  <2>3. ArmingInv' /\ OfferInv'
    BY <1>0, <1>a, <2>1 DEF ArmingInv, OfferInv
  <2> QED BY <2>2, <2>3 DEF Inv
<1>13. CASE Ch4Done
  <2>1. UNCHANGED <<s2r, r2s, pc, mode, recvAmt, cmf, cmie, tcie, tcf, txing, ch3, handed, seen,
                    spiTag, panicked>> /\ ch4.on
    BY <1>13 DEF Ch4Done, loopVars, usartVars
  <2>2. ch4' = [on |-> ch4.on, frame |-> ch4.frame, done |-> TRUE]
    BY <1>0, <1>13 DEF Ch4Done, Shapes
  <2>3. ch4' = [on |-> ch4'.on, frame |-> ch4'.frame, done |-> ch4'.done]
        /\ ch4'.on = ch4.on /\ ch4'.frame = ch4.frame
    BY <2>2
  <2>4. mode = "SEND_DMA" /\ SendingFrame
    BY <1>0, <2>1 DEF Shapes, Modes, ModeInv, BetweenCycles, SendingNone, Receiving, Ch4Off
  <2>5. Shapes' /\ ModeInv' /\ PanicsOnlyBeforeArming'
    BY <1>0, <2>1, <2>3, <2>4 DEF Shapes, ModeInv, SendingFrame, Accepted, Ch3Off,
                                PanicsOnlyBeforeArming
  <2>6. ArmingInv' /\ OfferInv'
    BY <1>0, <1>a, <2>1, <2>3 DEF ArmingInv, OfferInv
  <2> QED BY <2>5, <2>6 DEF Inv
<1>14. CASE RouterPoll \/ RouterShortPoll \/ RouterLateWords \/ RouterSends \/ RouterGivesUp
  <2>1. UNCHANGED <<s2r, r2s, pc, mode, recvAmt, cmie, tcie, tcf, txing, ch4, handed, seen,
                    spiTag, panicked>>
    BY <1>14 DEF RouterPoll, RouterShortPoll, RouterLateWords, RouterSends, RouterGivesUp,
                 loopVars, usartVars, dmaVars
  <2>3. ch3' = ch3 \/ (ch3.on /\ \E word : ch3' = DmaTakes(ch3, word))
    BY <1>14 DEF RouterPoll, RouterShortPoll, RouterLateWords, RouterSends, RouterGivesUp,
                 dmaVars, Arrives
  <2>4. /\ ch3' = [on |-> ch3'.on, left |-> ch3'.left, got |-> ch3'.got, fresh |-> ch3'.fresh,
                   done |-> ch3'.done]
        /\ ch3'.fresh = ch3.fresh
        /\ ch3.on \/ ch3' = ch3
    BY <1>0, <2>3 DEF Shapes, DmaTakes
  <2>5. Shapes' /\ PanicsOnlyBeforeArming'
    BY <1>0, <2>1, <2>4 DEF Shapes, PanicsOnlyBeforeArming
  <2>6. ModeInv'
    BY <1>0, <2>1, <2>4 DEF ModeInv, BetweenCycles, SendingFrame, SendingNone, Receiving,
                            Accepted, Ch3Off, Ch4Off
  <2>7. ArmingInv' /\ OfferInv'
    BY <1>0, <1>a, <2>1, <2>4 DEF ArmingInv, OfferInv
  <2> QED BY <2>5, <2>6, <2>7 DEF Inv
\* The other side adds to s2r behind the frame a grant is for, and takes from r2s.
<1>15. CASE Spi
  <2>1. UNCHANGED <<pc, mode, recvAmt, cmf, cmie, tcie, tcf, txing, ch3, ch4, handed, seen,
                    panicked>>
    BY <1>15 DEF Spi, SpiTakes, SpiCommits, SpiExchanges, loopVars, usartVars, dmaVars, routerVars
  <2>2. /\ s2r' = [frames |-> s2r'.frames, wr |-> s2r'.wr, rd |-> s2r'.rd,
                   unresolved |-> s2r'.unresolved]
        /\ s2r'.rd = s2r.rd /\ s2r'.frames \in Seq(Sent) /\ spiTag' \in Tags
        /\ s2r.frames # <<>> => s2r'.frames # <<>> /\ Head(s2r'.frames) = Head(s2r.frames)
    <3>1. CASE SpiTakes
      <4>1. s2r' = s2r /\ spiTag' = spiTag
        BY <3>1 DEF SpiTakes, routerVars
      <4> QED BY <1>0, <4>1 DEF Shapes
    <3>2. ASSUME NEW len \in SpiLens, SpiCommits(len) \/ SpiExchanges(len)
          PROVE  /\ s2r' = [frames |-> s2r'.frames, wr |-> s2r'.wr, rd |-> s2r'.rd,
                            unresolved |-> s2r'.unresolved]
                 /\ s2r'.rd = s2r.rd /\ s2r'.frames \in Seq(Sent) /\ spiTag' \in Tags
                 /\ s2r.frames # <<>> =>
                      s2r'.frames # <<>> /\ Head(s2r'.frames) = Head(s2r.frames)
      <4>1. 0 \notin SpiLens
        OBVIOUS
      <4> QED BY <1>0, <3>2, <4>1, CommitBehind
    <3> QED BY <1>15, <3>1, <3>2 DEF Spi
  <2>3. /\ r2s' = [frames |-> r2s'.frames, wr |-> r2s'.wr, rd |-> r2s'.rd,
                   unresolved |-> r2s'.unresolved]
        /\ r2s'.wr = r2s.wr
    BY <1>0, <1>15 DEF Spi, SpiTakes, SpiCommits, SpiExchanges, Fetched, ServiceRdNone, Shapes
  <2>4. Shapes' /\ PanicsOnlyBeforeArming'
    BY <1>0, <2>1, <2>2, <2>3 DEF Shapes, PanicsOnlyBeforeArming
  <2>5. ModeInv'
    BY <1>0, <2>1, <2>2, <2>3 DEF ModeInv, BetweenCycles, SendingFrame, SendingNone, Receiving,
                            Accepted, Ch3Off, Ch4Off
  <2>6. ArmingInv' /\ OfferInv'
    BY <1>0, <1>a, <2>1, <2>2, <2>3 DEF ArmingInv, OfferInv
  <2> QED BY <2>4, <2>5, <2>6 DEF Inv
<1>16. CASE UNCHANGED vars
  <2>1. UNCHANGED <<s2r, r2s, pc, mode, recvAmt, cmf, cmie, tcie, tcf, txing, ch3, ch4, handed,
                    seen, spiTag, panicked>>
    BY <1>16 DEF vars, loopVars, usartVars, dmaVars, routerVars
  <2>2. Shapes' /\ ModeInv' /\ PanicsOnlyBeforeArming'
    BY <1>0, <2>1 DEF Shapes, ModeInv, BetweenCycles, SendingFrame, SendingNone, Receiving,
                      Accepted, Ch3Off, Ch4Off, PanicsOnlyBeforeArming
  <2>3. ArmingInv' /\ OfferInv'
    BY <1>0, <1>a, <2>1 DEF ArmingInv, OfferInv
  <2> QED BY <2>2, <2>3 DEF Inv
<1>17. CASE Handler
  BY <1>17, <1>1, <1>2, <1>3, <1>4, <1>5, <1>6 DEF Handler
<1>18. CASE Main
  BY <1>18, <1>7, <1>8, <1>9, <1>10, <1>11, <1>20 DEF Main
<1>19. CASE Bus
  BY <1>19, <1>12, <1>13, <1>14 DEF Bus
<1> QED BY <1>15, <1>16, <1>17, <1>18, <1>19 DEF Next

\* As long as no cycle overlaps main's re-arming, the handshake keeps grants and
\* channels in step: each grant with its step and its channel, no channel running
\* while main sets it up, no channel left running between two cycles.
THEOREM Inductive == ASSUME 0 \notin TxCaps \cup SpiLens PROVE Undisturbed => []Inv
BY InvInit, InvKept, PTL DEF Undisturbed

\* A grant a handler has taken belongs to a step of the handshake whose end gives it back,
\* as long as no cycle overlaps main's re-arming.
THEOREM BusyGrantsStayOwned ==
  ASSUME 0 \notin TxCaps \cup SpiLens
  PROVE  Undisturbed => []BusyGrantsAreOwned
<1>1. Inv => BusyGrantsAreOwned
  BY DEF Inv, Shapes, Modes, ModeInv, BetweenCycles, SendingFrame, SendingNone, Receiving,
         Accepted, BusyGrantsAreOwned
<1> QED BY <1>1, Inductive, PTL

\* A channel runs only on a grant that is taken, and set up for it, as long as no cycle
\* overlaps main's re-arming: of a poll that comes between a grant's slot and its
\* channel it fails.
THEOREM ChannelsRunOnTheirGrants ==
  ASSUME 0 \notin TxCaps \cup SpiLens
  PROVE  Undisturbed => []DmaRunsOnItsGrant
<1>1. Inv => DmaRunsOnItsGrant
  BY DEF Inv, Shapes, Modes, ModeInv, BetweenCycles, SendingFrame, SendingNone, Receiving, Ch3Off,
         Ch4Off, DmaRunsOnItsGrant
<1> QED BY <1>1, Inductive, PTL

\* The panic of MODE_RELOAD is that of a poll before the port is armed for the first time.
\* That "What" is not reached is what it means that no cycle overlaps main's re-arming.
THEOREM PanicsOnlyEarly ==
  ASSUME 0 \notin TxCaps \cup SpiLens
  PROVE  Undisturbed => []PanicsOnlyBeforeArming
<1>1. Inv => PanicsOnlyBeforeArming
  BY DEF Inv
<1> QED BY <1>1, Inductive, PTL
=============================================================================
