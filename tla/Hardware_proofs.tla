--------------------------- MODULE Hardware_proofs ---------------------------
(* Proofs about the two models that stand closest to the machine: the       *)
(* interrupt controllers (Pic) and video memory (Video).                    *)
EXTENDS Pic, Video, TLAPS

-----------------------------------------------------------------------------
(* The interrupt controllers, for both values of PrefixCodes.               *)

\* The initial state satisfies the invariant.
LEMMA PicInitHolds == PicInit => PicInv
  BY DEF PicInit, PicInv, PicTypeOK, InServiceMatches, Stages, Devices, None

\* Set-up keeps the invariant: no handler can be running yet.
LEMMA SetUpKeeps == ASSUME PicInv, SetUp PROVE PicInv'
  <1>1. running = None /\ ~done /\ ~int_on
    BY DEF PicInv, SetUp, i8259_init, rtc_init, keyboard_init, init_PIT
  <1>2. CASE i8259_init
    BY <1>1, <1>2 DEF PicInv, PicTypeOK, InServiceMatches, i8259_init, InitialMask, enable_irq,
                      Lines, Stages, Devices, None
  <1>3. CASE rtc_init
    BY <1>1, <1>3 DEF PicInv, PicTypeOK, InServiceMatches, rtc_init, enable_irq, Lines, Stages, None
  <1>4. CASE keyboard_init
    BY <1>1, <1>4 DEF PicInv, PicTypeOK, InServiceMatches, keyboard_init, enable_irq, Lines, Stages, None
  <1>5. CASE init_PIT
    BY <1>1, <1>5 DEF PicInv, PicTypeOK, InServiceMatches, init_PIT, enable_irq, Lines, Stages, None
  <1> QED BY <1>2, <1>3, <1>4, <1>5 DEF SetUp

\* A request changes nothing that is in service.
LEMMA RaiseKeeps == ASSUME PicInv, NEW l \in Devices, Raise(l) PROVE PicInv'
  BY DEF PicInv, PicTypeOK, InServiceMatches, Raise, MasterLine, None

\* Accepting a request puts exactly its own lines into service.
LEMMA AcceptKeeps == ASSUME PicInv, NEW l \in Devices, Accept(l) PROVE PicInv'
  <1>1. /\ running = None /\ ~done /\ stage = "init_PIT"
        /\ running' = l /\ ~done' /\ stage' = stage /\ dropped' = dropped
        /\ isr' = isr \cup {l, MasterLine(l)}
    BY DEF PicInv, PicTypeOK, Accept
  <1>2. l # None /\ MasterLine(l) \in Devices \cup {CASCADE}
    BY DEF Devices, None, MasterLine, PIT_IRQ, KEYBOARD_IRQ_LINE, RTC_IRQ, CASCADE
  <1>3. PicTypeOK'
    BY <1>1, <1>2 DEF PicInv, PicTypeOK, Accept
  <1>4. InServiceMatches'
    BY <1>1, <1>2 DEF PicInv, InServiceMatches, MasterLine
  <1> QED BY <1>1, <1>2, <1>3, <1>4 DEF PicInv

\* The EOI of a handler takes out of service all that it served.
LEMMA EoiSuffices ==
    ASSUME PicInv, NEW l \in Devices, Handle(l), send_eoi(l), UNCHANGED dropped
    PROVE  PicInv'
  <1>1. l # None /\ running = l /\ ~done /\ stage = "init_PIT"
    BY DEF PicInv, PicTypeOK, Handle, Devices, None, PIT_IRQ, KEYBOARD_IRQ_LINE, RTC_IRQ
  <1>2. EoiClears(l) = {l, MasterLine(l)}
    BY DEF EoiClears, MasterLine, Devices, PIT_IRQ, KEYBOARD_IRQ_LINE, RTC_IRQ
  <1>3. isr \subseteq {l, MasterLine(l)} \cup (IF dropped THEN {KEYBOARD_IRQ_LINE} ELSE {})
    BY <1>1 DEF PicInv, InServiceMatches
  <1>4. isr' \subseteq IF dropped' THEN {KEYBOARD_IRQ_LINE} ELSE {}
    BY <1>2, <1>3 DEF send_eoi
  <1>5. done' /\ running' = running /\ stage' = stage
    BY DEF Handle
  <1>6. InServiceMatches'
    BY <1>4, <1>5 DEF InServiceMatches
  <1>7. PicTypeOK'
    BY DEF PicInv, PicTypeOK, Handle, send_eoi
  <1> QED BY <1>1, <1>5, <1>6, <1>7 DEF PicInv

\* Every handler keeps the invariant; the early return leaves the keyboard's own line.
LEMMA HandlerKeeps == ASSUME PicInv, Handler PROVE PicInv'
  <1>1. CASE PIT_handler
    BY <1>1, EoiSuffices DEF PIT_handler, Devices
  <1>2. CASE Key
    BY <1>2, EoiSuffices DEF Key, Devices
  <1>3. CASE rtc_handler
    BY <1>3, EoiSuffices DEF rtc_handler, Devices
  <1>4. CASE PrefixCode
    BY <1>4 DEF PicInv, PicTypeOK, InServiceMatches, PrefixCode, Handle, MasterLine, None,
                KEYBOARD_IRQ_LINE
  <1>5. CASE Leave
    <2>1. stage = "init_PIT"
      BY <1>5 DEF PicInv, Leave
    <2> QED BY <1>5, <2>1 DEF PicInv, PicTypeOK, InServiceMatches, Leave
  <1> QED BY <1>1, <1>2, <1>3, <1>4, <1>5 DEF Handler

\* Critical sections of system calls touch only the interrupt flag.
LEMMA FlagKeeps == ASSUME PicInv, cli \/ sti PROVE PicInv'
  <1>1. /\ stage = "init_PIT" /\ int_on' \in BOOLEAN
        /\ UNCHANGED <<stage, mask, irr, isr, running, done, dropped>>
    BY DEF cli, sti
  <1>2. PicTypeOK' /\ InServiceMatches'
    BY <1>1 DEF PicInv, PicTypeOK, InServiceMatches, MasterLine
  <1> QED BY <1>1, <1>2 DEF PicInv

\* The invariant holds in every reachable state.
THEOREM PicInvariant == PicSpec => []PicInv
  <1>1. PicInit => PicInv
    BY PicInitHolds
  <1>2. PicInv /\ [PicNext]_pic_vars => PicInv'
    <2> SUFFICES ASSUME PicInv, [PicNext]_pic_vars PROVE PicInv'
      OBVIOUS
    <2>1. CASE PicNext
      BY <2>1, SetUpKeeps, RaiseKeeps, AcceptKeeps, HandlerKeeps, FlagKeeps DEF PicNext
    <2>2. CASE UNCHANGED pic_vars
      BY <2>2 DEF PicInv, PicTypeOK, InServiceMatches, pic_vars, MasterLine
    <2> QED BY <2>1, <2>2
  <1> QED BY <1>1, <1>2, PTL DEF PicSpec

\* Between handlers no line is left in service but, after an unacknowledged key, the
\* keyboard's: send_eoi undoes on both chips what the CPU's acceptance did.
THEOREM NothingLeftInService == PicSpec => []InServiceMatches
  <1>1. PicInv => InServiceMatches
    BY DEF PicInv
  <1> QED BY <1>1, PicInvariant, PTL

-----------------------------------------------------------------------------
(* Video memory: type correctness and the switch of the display in every    *)
(* environment, the separation of the screens in a disciplined one.         *)

\* The place of a terminal's output is one of the pages.
LEMMA PlaceIsPage ==
    ASSUME NEW t \in Terms
    PROVE  Place(t) \in Pages /\ t + 1 \in Pages /\ 0 \in Pages
BY VideoAssumption DEF Place, Pages, Terms

\* Different terminals write to different places.
LEMMA PlacesDiffer ==
    ASSUME NEW t \in Terms, NEW u \in Terms, t # u
    PROVE  Place(t) # Place(u)
BY VideoAssumption DEF Place, Terms

\* The round robin stays among the terminals.
LEMMA NextIsTerm ==
    ASSUME NEW t \in Terms
    PROVE  (t + 1) % MAX_TERMINALS \in Terms
BY VideoAssumption DEF Terms

\* The type invariant is preserved by each step of each operation.
LEMMA TypeStep == TypeOK /\ [Next]_vars => TypeOK'
<1> SUFFICES ASSUME TypeOK, [Next]_vars PROVE TypeOK'
  OBVIOUS
<1> USE DEF TypeOK
<1>1. ASSUME NEW t \in Terms, NEW c \in Glyphs, putc(t, c) PROVE TypeOK'
  <2>1. <<t, c>> \in Contents
    BY DEF Contents
  <2> QED BY <1>1, <2>1, PlaceIsPage DEF putc
<1>2. ASSUME NEW c \in Glyphs, terminal_write(c) PROVE TypeOK'
  BY <1>1, <1>2 DEF terminal_write
<1>3. ASSUME NEW c \in Glyphs, Echo(c) PROVE TypeOK'
  BY <1>1, <1>3 DEF Echo
<1>4. ASSUME NEW c \in Glyphs, Draw(c) PROVE TypeOK'
  <2>1. <<scheduled_process, c>> \in Contents
    BY DEF Contents
  <2> QED BY <1>4, <2>1 DEF Draw
<1>5. CASE CtrlL
  <2>1. PICK left \in {Blank} \cup ({curr_term} \X Glyphs) : clear(left)
    BY <1>5 DEF CtrlL
  <2>2. left \in Contents
    BY <2>1 DEF Contents
  <2> QED BY <1>5, <2>1, <2>2 DEF CtrlL, clear
<1>6. ASSUME NEW next \in Terms, switch_terminals(next) PROVE TypeOK'
  BY <1>6, PlaceIsPage DEF switch_terminals, PagesSwitched
<1>7. CASE schedule
  <2> DEFINE n == (scheduled_process + 1) % MAX_TERMINALS
  <2>1. n \in Terms
    BY NextIsTerm
  <2>2. Place(n) \in Pages
    BY <2>1, PlaceIsPage
  <2> QED BY <1>7, <2>1, <2>2 DEF schedule, scheduling_vidmap
<1>8. CASE sys_vidmap
  BY <1>8, PlaceIsPage DEF sys_vidmap
<1>9. CASE Halt
  BY <1>9 DEF Halt
<1>10. ASSUME NEW c \in Glyphs, handle_exception(c) PROVE TypeOK'
  <2>1. <<scheduled_process, c>> \in Contents
    BY DEF Contents
  <2> QED BY <1>10, <2>1 DEF handle_exception, clear
<1>11. CASE UNCHANGED vars
  BY <1>11 DEF vars
<1> QED BY <1>2, <1>3, <1>4, <1>5, <1>6, <1>7, <1>8, <1>9, <1>10, <1>11 DEF Next

\* The initial state is well typed.
LEMMA TypeInit == Init => TypeOK
BY VideoAssumption DEF Init, TypeOK, Terms, Pages, Contents

\* Whatever programs and keys do, only the display and the backing pages are mapped
\* and written (paging.c:151-203, lib.c:176-218).
THEOREM TypeCorrect == Spec => []TypeOK
BY TypeInit, TypeStep, PTL DEF Spec

-----------------------------------------------------------------------------

\* Output written where it belongs leaves every screen its terminal's own.
LEMMA OwnWrite ==
    ASSUME TypeOK, OwnScreens, NEW t \in Terms, NEW c \in Glyphs,
           page' = [page EXCEPT ![Place(t)] = <<t, c>>],
           UNCHANGED curr_term
    PROVE  OwnScreens'
<1> SUFFICES ASSUME NEW u \in Terms
             PROVE  page'[Place(u)] = Blank \/ page'[Place(u)][1] = u
  BY DEF OwnScreens, Shows, Place
<1>1. Place(u) \in Pages /\ Place(t) \in Pages
  BY PlaceIsPage
<1>2. CASE u = t
  BY <1>1, <1>2 DEF TypeOK
<1>3. CASE u # t
  BY <1>1, <1>3, PlacesDiffer DEF TypeOK, OwnScreens, Shows
<1> QED BY <1>2, <1>3

\* After switch_terminals every terminal shows what it showed before: the display's
\* contents have moved to the old terminal's page, the new terminal's to the display.
LEMMA SwitchKeeps ==
    ASSUME TypeOK, NEW next \in Terms, switch_terminals(next), NEW t \in Terms
    PROVE  page'[IF t = curr_term' THEN 0 ELSE t + 1] = Shows(t)
<1>1. /\ 0 \in Pages /\ t + 1 \in Pages /\ next + 1 \in Pages /\ curr_term + 1 \in Pages
      /\ t + 1 # 0 /\ next + 1 # 0 /\ curr_term + 1 # 0
      /\ t \in Int /\ next \in Int /\ curr_term \in Int
  <2>1. curr_term \in Terms
    BY DEF TypeOK
  <2>2. 0 \in Pages /\ t + 1 \in Pages /\ next + 1 \in Pages /\ curr_term + 1 \in Pages
    BY <2>1, PlaceIsPage
  <2> QED BY <2>1, <2>2, VideoAssumption DEF Terms
<1>2. /\ page' = [page EXCEPT ![curr_term + 1] = page[0], ![0] = page[next + 1]]
      /\ curr_term' = next
      /\ next # curr_term
  BY DEF switch_terminals, PagesSwitched
<1>3. CASE t = next
  <2>1. page'[0] = page[next + 1]
    BY <1>1, <1>2 DEF TypeOK
  <2> QED BY <1>2, <1>3, <2>1 DEF Shows, Place
<1>4. CASE t = curr_term
  <2>1. page'[curr_term + 1] = page[0]
    BY <1>1, <1>2 DEF TypeOK
  <2> QED BY <1>2, <1>4, <2>1 DEF Shows, Place
<1>5. CASE t # next /\ t # curr_term
  <2>1. page'[t + 1] = page[t + 1]
    BY <1>1, <1>2, <1>5 DEF TypeOK
  <2> QED BY <1>2, <1>5, <2>1 DEF Shows, Place
<1> QED BY <1>3, <1>4, <1>5

\* So does clearing the display of terminal t and filling it with t's own.
LEMMA OwnClear ==
    ASSUME TypeOK, OwnScreens, NEW left,
           left = Blank \/ left[1] = curr_term,
           clear(left), UNCHANGED curr_term
    PROVE  OwnScreens'
<1> SUFFICES ASSUME NEW u \in Terms
             PROVE  page'[Place(u)] = Blank \/ page'[Place(u)][1] = u
  BY DEF OwnScreens, Shows, Place
<1>1. Place(u) \in Pages /\ 0 \in Pages
  BY PlaceIsPage
<1>2. CASE u = curr_term
  BY <1>1, <1>2 DEF TypeOK, clear, Place
<1>3. CASE u # curr_term
  <2>1. Place(u) # 0
    BY <1>3, VideoAssumption DEF Place, Terms
  <2> QED BY <1>1, <2>1 DEF TypeOK, OwnScreens, Shows, clear
<1> QED BY <1>2, <1>3

\* The screens stay apart in every step of a disciplined environment.
LEMMA VideoStep == Disciplined /\ VideoInv /\ [Next]_vars => VideoInv'
<1> SUFFICES ASSUME Disciplined, VideoInv, [Next]_vars PROVE OwnScreens' /\ MappedToOwnScreen'
  BY TypeStep DEF VideoInv
<1>t. TypeOK /\ OwnScreens /\ MappedToOwnScreen
  BY DEF VideoInv
<1>s. scheduled_process \in Terms /\ curr_term \in Terms
  BY <1>t DEF TypeOK
<1>1. ASSUME NEW t \in Terms, NEW c \in Glyphs, putc(t, c)
      PROVE  OwnScreens' /\ MappedToOwnScreen'
  BY <1>1, <1>t, OwnWrite DEF putc, MappedToOwnScreen, Place
<1>2. ASSUME NEW c \in Glyphs, terminal_write(c) PROVE OwnScreens' /\ MappedToOwnScreen'
  BY <1>1, <1>2, <1>s DEF terminal_write
<1>3. ASSUME NEW c \in Glyphs, Echo(c) PROVE OwnScreens' /\ MappedToOwnScreen'
  BY <1>1, <1>3, <1>s DEF Echo
<1>4. ASSUME NEW c \in Glyphs, Draw(c) PROVE OwnScreens' /\ MappedToOwnScreen'
  <2>1. vidmap_page = Place(scheduled_process)
    BY <1>4, <1>t DEF Draw, MappedToOwnScreen
  <2>2. OwnScreens'
    BY <1>4, <1>t, <1>s, <2>1, OwnWrite DEF Draw
  <2> QED BY <1>4, <1>t, <2>2 DEF Draw, MappedToOwnScreen, Place
<1>5. CASE CtrlL
  <2>1. PICK left \in {Blank} \cup ({curr_term} \X Glyphs) : clear(left)
    BY <1>5 DEF CtrlL
  <2>2. OwnScreens'
    BY <1>5, <1>t, <2>1, OwnClear DEF CtrlL
  <2> QED BY <1>5, <1>t, <2>2 DEF CtrlL, MappedToOwnScreen, Place
<1>6. ASSUME NEW next \in Terms, switch_terminals(next)
      PROVE  OwnScreens' /\ MappedToOwnScreen'
  <2>1. \A t \in Terms : page'[IF t = curr_term' THEN 0 ELSE t + 1] = Shows(t)
    BY <1>6, <1>t, SwitchKeeps
  <2>2. OwnScreens'
    BY <2>1, <1>t DEF OwnScreens, Shows, Place
  <2>3. ~drawing[scheduled_process] /\ UNCHANGED <<drawing, scheduled_process>>
    BY <1>6 DEF switch_terminals, Disciplined
  <2> QED BY <2>2, <2>3 DEF MappedToOwnScreen
<1>7. CASE schedule
  <2>1. OwnScreens'
    BY <1>7, <1>t DEF schedule, OwnScreens, Shows, Place
  <2>2. vidmap_page' = Place(scheduled_process') /\ UNCHANGED curr_term
    BY <1>7 DEF schedule, scheduling_vidmap
  <2> QED BY <2>1, <2>2 DEF MappedToOwnScreen, Place
<1>8. CASE sys_vidmap
  <2>1. OwnScreens'
    BY <1>8, <1>t DEF sys_vidmap, OwnScreens, Shows, Place
  <2>2. scheduled_process = curr_term /\ vidmap_page' = 0 /\ UNCHANGED <<curr_term, scheduled_process>>
    BY <1>8 DEF sys_vidmap, Disciplined
  <2> QED BY <2>1, <2>2 DEF MappedToOwnScreen, Place
<1>9. CASE Halt
  <2>1. OwnScreens'
    BY <1>9, <1>t DEF Halt, OwnScreens, Shows, Place
  <2>2. drawing'[scheduled_process'] = FALSE
    BY <1>9, <1>s, <1>t DEF Halt, TypeOK
  <2> QED BY <2>1, <2>2 DEF MappedToOwnScreen
<1>10. ASSUME NEW c \in Glyphs, handle_exception(c) PROVE OwnScreens' /\ MappedToOwnScreen'
  <2>1. scheduled_process = curr_term
    BY <1>10 DEF handle_exception, Disciplined
  <2>2. OwnScreens'
    BY <1>10, <1>t, <2>1, OwnClear DEF handle_exception
  <2>3. drawing'[scheduled_process'] = FALSE
    BY <1>10, <1>s, <1>t DEF handle_exception, TypeOK
  <2> QED BY <2>2, <2>3 DEF MappedToOwnScreen
<1>11. CASE UNCHANGED vars
  BY <1>11, <1>t DEF vars, OwnScreens, Shows, Place, MappedToOwnScreen
<1> QED BY <1>2, <1>3, <1>4, <1>5, <1>6, <1>7, <1>8, <1>9, <1>10, <1>11 DEF Next

\* The initial state satisfies the invariant.
LEMMA VideoInit == Init => VideoInv
<1> SUFFICES ASSUME Init PROVE OwnScreens /\ MappedToOwnScreen
  BY TypeInit DEF VideoInv
<1>1. OwnScreens
  BY PlaceIsPage DEF Init, OwnScreens, Shows
<1>2. MappedToOwnScreen
  BY VideoAssumption DEF Init, MappedToOwnScreen, Terms
<1> QED BY <1>1, <1>2

\* If the display does not change while a drawing program has the CPU, and programs call
\* vidmap and fault only on the displayed terminal, every terminal shows only its own
\* output (lib.c:187-194, terminal.c:116-122, exceptions.c:38-54).
THEOREM ScreensStayApart == Disciplined => (Spec => []OwnScreens)
<1> SUFFICES ASSUME Disciplined PROVE Spec => []OwnScreens
  OBVIOUS
<1>1. VideoInv /\ [Next]_vars => VideoInv'
  BY VideoStep
<1>2. VideoInv => OwnScreens
  BY DEF VideoInv
<1> QED BY <1>1, <1>2, VideoInit, PTL DEF Spec

\* In the same environment a program that draws has its own screen mapped at 132 MB each
\* time it gets the CPU, displayed or not: scheduling_vidmap follows the displayed terminal
\* and no other step separates the two (schedule.c:175-177, paging.c:162-173).
THEOREM MappingIsOwn == Disciplined => (Spec => []MappedToOwnScreen)
<1> SUFFICES ASSUME Disciplined PROVE Spec => []MappedToOwnScreen
  OBVIOUS
<1>1. VideoInv /\ [Next]_vars => VideoInv'
  BY VideoStep
<1>2. VideoInv => MappedToOwnScreen
  BY DEF VideoInv
<1> QED BY <1>1, <1>2, VideoInit, PTL DEF Spec

\* In every environment, changing the display changes no terminal's screen
\* (terminal.c:116-125).
THEOREM SwitchingKeepsScreens == Spec => SwitchKeepsScreens
<1>1. TypeOK /\ [Next]_vars =>
         [curr_term' # curr_term =>
             \A t \in Terms : page'[IF t = curr_term' THEN 0 ELSE t + 1] = Shows(t)]_vars
  <2> SUFFICES ASSUME TypeOK, Next, curr_term' # curr_term, NEW t \in Terms
               PROVE  page'[IF t = curr_term' THEN 0 ELSE t + 1] = Shows(t)
    OBVIOUS
  <2>1. \E next \in Terms : switch_terminals(next)
    BY DEF Next, terminal_write, Echo, putc, Draw, CtrlL, handle_exception, schedule, sys_vidmap, Halt
  <2> QED BY <2>1, SwitchKeeps
<1> QED BY <1>1, TypeCorrect, PTL DEF Spec, SwitchKeepsScreens
=============================================================================
