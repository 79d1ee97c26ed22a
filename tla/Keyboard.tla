-------------------------------- MODULE Keyboard --------------------------------
(***************************************************************************)
(* drivers/keyboard.c: the PS/2 controller, the IRQ1 handler and the main  *)
(* loop share the controller's one-byte output buffer and the key ring.    *)
(*                                                                         *)
(* The kernel is built without optimisation, so every C statement of the   *)
(* main loop loads and stores the static variables itself: each such       *)
(* statement is a step, and the handler, which runs with interrupts off,   *)
(* is one step that may come between any two of them.                      *)
(*                                                                         *)
(* The stub of isr.asm passes irq_handler a bad pointer, so whether the    *)
(* registered handler is found is left open: setup.runs.  Keys carry the   *)
(* number of the byte they come from; the code does not look at it.        *)
(***************************************************************************)
EXTENDS Integers, Sequences, SequencesExt

CONSTANTS
  BUFFER_SIZE,
  Setups,          \* what surrounds the driver, see `setup'
  MaxBytes         \* bound on the bytes the keyboard sends, and on Stray

Bytes == {"shift", "unshift", "release", "dead", "letter", "arrow"}

ASSUME KeyboardParameters ==
  /\ BUFFER_SIZE \in Nat /\ BUFFER_SIZE > 1
  /\ Setups \subseteq [sends : SUBSET Bytes, runs : (SUBSET BOOLEAN) \ {{}},
                     asks : (SUBSET BOOLEAN) \ {{}}]
  /\ MaxBytes \in Nat

VARIABLES
  setup,           \* fixed: the bytes the keyboard sends, by what the driver does with
                   \* them; the outcomes of an interrupt, TRUE when keyboard_handler
                   \* runs; whether callers come through keyboard_available
  sent,            \* every byte the keyboard has put into the output buffer
  port, full,      \* the data port and bit 0 of the status port
  irq,             \* IRQ1 is latched in the interrupt controller
  shift_pressed, key_buffer, buffer_start, buffer_end,
  pc,              \* the main loop's next statement
  asks,            \* whether this call went through keyboard_available
  scancode, key, next,   \* its locals
  fresh,           \* ring slots written since they were last read
  got              \* the keys keyboard_getchar has returned

device == <<setup, sent, port, full, irq>>
ring == <<key_buffer, buffer_start, buffer_end, fresh>>
locals == <<asks, scancode, key, next>>
vars == <<device, shift_pressed, ring, pc, locals, got>>

NoKey == [id |-> 0, char |-> "none"]
RingIndex == 0..(BUFFER_SIZE - 1)

Succ(i) == (i + 1) % BUFFER_SIZE

Init ==
  /\ setup \in Setups
  /\ sent = <<>> /\ port = 0 /\ full = FALSE /\ irq = FALSE
  /\ shift_pressed = FALSE
  /\ key_buffer = [i \in RingIndex |-> NoKey] /\ buffer_start = 0 /\ buffer_end = 0
  /\ fresh = {}
  /\ pc = "idle" /\ asks \in setup.asks
  /\ scancode = 0 /\ key = NoKey /\ next = 0
  /\ got = <<>>

-----------------------------------------------------------------------------
(* Decoding.  Byte number n is sent[n]; byte 0 is the power-up port value.  *)

ByteAt(n) == IF n = 0 THEN "dead" ELSE sent[n]

(* The shift state after a byte: both routines agree (88-95, 244-251).     *)
ShiftAfter(byte, shift) ==
  CASE byte = "shift" -> TRUE [] byte = "unshift" -> FALSE [] OTHER -> shift

(* keyboard_handler's decoding: the arrows have codes of their own.        *)
HandlerChar(byte, shift) ==
  CASE byte = "letter" -> (IF shift THEN "A" ELSE "a")
    [] byte = "arrow"  -> "up"
    [] OTHER           -> "none"

(* keyboard_poll's decoding: arrows go through the table as keypad digits. *)
PollChar(byte, shift) ==
  CASE byte = "letter" -> (IF shift THEN "A" ELSE "a")
    [] byte = "arrow"  -> "8"
    [] OTHER           -> "none"

-----------------------------------------------------------------------------
(* The keyboard: a byte reaches the output buffer when it is empty.        *)
Send(byte) ==
  /\ ~full /\ Len(sent) < MaxBytes
  /\ sent' = Append(sent, byte) /\ port' = Len(sent) + 1
  /\ full' = TRUE /\ irq' = TRUE
  /\ UNCHANGED <<setup, shift_pressed, ring, pc, locals, got>>

(* Reading the data port empties it; the byte stays readable.              *)
ReadPort == full' = FALSE /\ UNCHANGED <<setup, sent, port>>

(* IRQ1: the handler decodes what the port holds and adds it to the ring.  *)
Handler ==
  LET byte == ByteAt(port)
      k    == [id |-> port, char |-> HandlerChar(byte, shift_pressed)]
      adds == k.char # "none" /\ Succ(buffer_end) # buffer_start
  IN  /\ ReadPort
      /\ shift_pressed' = ShiftAfter(byte, shift_pressed)
      /\ IF adds
         THEN /\ key_buffer' = [key_buffer EXCEPT ![buffer_end] = k]
              /\ fresh' = fresh \cup {buffer_end}
              /\ buffer_end' = Succ(buffer_end)
         ELSE UNCHANGED <<key_buffer, fresh, buffer_end>>
      /\ UNCHANGED buffer_start

Interrupt ==
  /\ irq /\ irq' = FALSE
  /\ \E runs \in setup.runs :
       IF runs THEN Handler
       ELSE UNCHANGED <<setup, sent, port, full, shift_pressed, ring>>
  /\ UNCHANGED <<locals, got>>
  /\ pc' = (IF pc = "hlt" THEN "poll_status" ELSE pc)

(* The word that is taken for the line's number is arbitrary               *)
(* (irq.c:123-125), so that keyboard_handler may also run on an interrupt  *)
(* of another line, with IRQ1 still latched or not: it does not look at    *)
(* the status port and decodes the old byte once more.  Such interrupts    *)
(* are modelled until MaxBytes keys have been returned.                    *)
Stray ==
  /\ TRUE \in setup.runs /\ Len(got) < MaxBytes
  /\ Handler
  /\ UNCHANGED <<irq, locals, got>>
  /\ pc' = (IF pc = "hlt" THEN "poll_status" ELSE pc)

-----------------------------------------------------------------------------
(* The main loop.                                                          *)
Goto(from, to) == pc = from /\ pc' = to

(* kernel.c asks keyboard_available and then calls keyboard_getchar; the   *)
(* header also offers keyboard_getchar alone.                              *)
Call ==
  /\ asks' \in setup.asks
  /\ Goto("idle", IF asks' THEN "available" ELSE "getchar")
  /\ UNCHANGED <<device, shift_pressed, ring, scancode, key, next, got>>

(* keyboard_available: a key in the ring, or something at the port?        *)
Available ==
  /\ Goto("available", IF buffer_start # buffer_end THEN "getchar" ELSE "status")
  /\ UNCHANGED <<device, shift_pressed, ring, locals, got>>

(* Seeded faults: a full output buffer is taken for a key; the wrong       *)
(* status bit is looked at.                                                *)
StatusIsKey ==
  /\ Goto("status", IF full THEN "getchar" ELSE "idle")
  /\ UNCHANGED <<device, shift_pressed, ring, locals, got>>
StatusMissed ==
  /\ Goto("status", "idle")
  /\ UNCHANGED <<device, shift_pressed, ring, locals, got>>

Status ==
  /\ Goto("status", IF full THEN "poll_status" ELSE "idle")
  /\ UNCHANGED <<device, shift_pressed, ring, locals, got>>

(* keyboard_poll, called by keyboard_available or by the fallback loop.    *)
NothingPolled == IF asks THEN "idle" ELSE "hlt"

PollStatus ==
  /\ Goto("poll_status", IF full THEN "poll_data" ELSE NothingPolled)
  /\ UNCHANGED <<device, shift_pressed, ring, locals, got>>

(* A latched IRQ1 may survive the read or be withdrawn with it.            *)
PollData ==
  /\ Goto("poll_data", "poll_decode")
  /\ scancode' = port
  /\ ReadPort /\ irq' \in {irq, FALSE}
  /\ UNCHANGED <<shift_pressed, ring, asks, key, next, got>>

PollDecode ==
  LET byte == ByteAt(scancode)
      char == PollChar(byte, shift_pressed)
  IN  /\ Goto("poll_decode",
              IF char = "none" THEN NothingPolled
              ELSE IF asks THEN "add_next" ELSE "return")
      /\ shift_pressed' = ShiftAfter(byte, shift_pressed)
      /\ key' = [id |-> scancode, char |-> char]
      /\ UNCHANGED <<device, ring, asks, scancode, next, got>>

(* buffer_add from keyboard_available: four statements, interrupts on.     *)
AddNext ==
  /\ Goto("add_next", "add_check")
  /\ next' = Succ(buffer_end)
  /\ UNCHANGED <<device, shift_pressed, ring, asks, scancode, key, got>>

(* Seeded fault: buffer_end moves on without the store.                    *)
AddCheckOnly ==
  /\ Goto("add_check", IF next # buffer_start THEN "add_end" ELSE "getchar")
  /\ UNCHANGED <<device, shift_pressed, ring, locals, got>>

AddCheck ==
  /\ Goto("add_check", IF next # buffer_start THEN "add_store" ELSE "getchar")
  /\ UNCHANGED <<device, shift_pressed, ring, locals, got>>

AddStore ==
  /\ Goto("add_store", "add_end")
  /\ key_buffer' = [key_buffer EXCEPT ![buffer_end] = key]
  /\ fresh' = fresh \cup {buffer_end}
  /\ UNCHANGED <<device, shift_pressed, buffer_start, buffer_end, locals, got>>

AddEnd ==
  /\ Goto("add_end", "getchar")
  /\ buffer_end' = next
  /\ UNCHANGED <<device, shift_pressed, key_buffer, buffer_start, fresh, locals, got>>

(* Seeded fault: the ring is not looked at.                                *)
GetcharPolls ==
  /\ Goto("getchar", "poll_status")
  /\ UNCHANGED <<device, shift_pressed, ring, locals, got>>

(* keyboard_getchar and buffer_get.                                        *)
Getchar ==
  /\ Goto("getchar", IF buffer_start # buffer_end THEN "get_read" ELSE "poll_status")
  /\ UNCHANGED <<device, shift_pressed, ring, locals, got>>

GetRead ==
  /\ Goto("get_read", "get_advance")
  /\ key' = key_buffer[buffer_start]
  /\ UNCHANGED <<device, shift_pressed, ring, asks, scancode, next, got>>

(* Seeded fault: buffer_start stays.                                       *)
GetAgain ==
  /\ Goto("get_advance", "return")
  /\ UNCHANGED <<device, shift_pressed, ring, locals, got>>

GetAdvance ==
  /\ Goto("get_advance", "return")
  /\ buffer_start' = Succ(buffer_start)
  /\ fresh' = fresh \ {buffer_start}
  /\ UNCHANGED <<device, shift_pressed, key_buffer, buffer_end, locals, got>>

Return ==
  /\ Goto("return", "idle")
  /\ got' = Append(got, key)
  /\ UNCHANGED <<device, shift_pressed, ring, locals>>

(* hlt ends at any interrupt: Interrupt above, or the timer's IRQ0.        *)
TimerWakes ==
  /\ Goto("hlt", "poll_status")
  /\ UNCHANGED <<device, shift_pressed, ring, locals, got>>

Main ==
  \/ Call \/ Available \/ Status \/ PollStatus \/ PollData \/ PollDecode
  \/ AddNext \/ AddCheck \/ AddStore \/ AddEnd
  \/ Getchar \/ GetRead \/ GetAdvance \/ Return \/ TimerWakes

Next == (\E byte \in setup.sends : Send(byte)) \/ Interrupt \/ Stray \/ Main

Spec == Init /\ [][Next]_vars

(* The processor keeps executing and takes latched interrupts.             *)
FairSpec == Spec /\ WF_vars(Main) /\ WF_vars(Interrupt)

-----------------------------------------------------------------------------
Key == [id : 0..MaxBytes, char : {"none", "a", "A", "up", "8"}]

PCs == {"idle", "available", "status", "poll_status", "poll_data", "poll_decode",
        "add_next", "add_check", "add_store", "add_end",
        "getchar", "get_read", "get_advance", "return", "hlt"}

TypeOK ==
  /\ setup \in Setups
  /\ sent \in Seq(Bytes) /\ Len(sent) <= MaxBytes
  /\ port \in 0..Len(sent) /\ scancode \in 0..Len(sent)
  /\ full \in BOOLEAN /\ irq \in BOOLEAN /\ shift_pressed \in BOOLEAN
  /\ key_buffer \in [RingIndex -> Key] /\ key \in Key
  /\ buffer_start \in RingIndex /\ buffer_end \in RingIndex /\ next \in RingIndex
  /\ fresh \subseteq RingIndex
  /\ pc \in PCs /\ asks \in setup.asks
  /\ got \in Seq(Key)

Used(n) == (n - buffer_start) % BUFFER_SIZE < (buffer_end - buffer_start) % BUFFER_SIZE

(* However handler and main loop interleave inside buffer_add, the span    *)
(* from buffer_start to buffer_end holds only keys that were put there     *)
(* since the slot was last read (keyboard.c:63-79).                        *)
NoStaleKeyReadable == {i \in RingIndex : Used(i)} \subseteq fresh

(* A caller that saw keyboard_available return 1 gets its key from the     *)
(* ring: the loop with hlt of keyboard.c:282-296 is never entered.         *)
GetcharNeverBlocks == asks /\ pc = "getchar" => buffer_start # buffer_end

(* Whatever sits in the ring is returned in the end (kernel.c:112-114).    *)
RingDrains == \A i \in RingIndex : Used(i) ~> ~Used(i)

(* The keys a byte stream stands for, in order, by keyboard_poll's tables. *)
Expected ==
  FoldLeft(LAMBDA acc, n :
             [shift |-> ShiftAfter(sent[n], acc.shift),
              keys  |-> LET c == PollChar(sent[n], acc.shift)
                        IN  IF c = "none" THEN acc.keys
                            ELSE Append(acc.keys, [id |-> n, char |-> c])],
           [shift |-> FALSE, keys |-> <<>>],
           [n \in 1..Len(sent) |-> n]).keys

(* The port is left to the main loop.                                      *)
Polled == setup.runs = {FALSE}

(* With the port left to the main loop, every key comes out once, in the   *)
(* order it was typed and with the shift state of its moment               *)
(* (keyboard.c:235-280).                                                   *)
PolledInOrder == Polled => IsPrefix(got, Expected)

(* ... and none is forgotten (keyboard.c:282-315).                         *)
PolledEventually == Polled => []<>(got = Expected)

-----------------------------------------------------------------------------
(* keyboard.c:62 "Add key to buffer": a key for which buffer_add found     *)
(* room is the newest key of the ring when buffer_add returns.             *)
AddedKeyIsBuffered ==
  [][AddEnd => key_buffer[(next - 1) % BUFFER_SIZE] = key]_vars
=============================================================================
