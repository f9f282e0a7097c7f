----------------------------- MODULE MCPipePair -----------------------------
(* PipePair for TLC: the settings of its runs. *)
EXTENDS PipePair

Both(session, socket) == [e \in End |-> IF e = "session" THEN session ELSE socket]

Plain ==
  [Hwm |-> Both(1, 1), InBoost |-> Both(-1, -1), OutBoost |-> Both(-1, -1),
   Kind |-> Both({}, {}), MayNodelay |-> End, MayHiccup |-> {}, MaySetHwm |-> {},
   NewHwm |-> {}, MayTerminate |-> {}, MaxMsg |-> Both(1, 1), MaxPart |-> 1,
   MaxHiccup |-> 0, MaxSetHwm |-> 0, MaxTerminate |-> 0]

(* Both users terminate, twice each, while messages are on their way. *)
Term == {[Plain EXCEPT !.Hwm = Both(2, 1), !.MayTerminate = End, !.MaxPart = 2,
                       !.MaxTerminate = 2]}

(* A writer of parts against its mark, an identity first; nobody           *)
(* terminates or changes the marks.                                        *)
Flow == {[Plain EXCEPT !.Hwm = Both(3, 2), !.Kind = Both({"identity"}, {}),
                       !.MayNodelay = {}, !.MaxMsg = Both(4, 0), !.MaxPart = 2]}

(* The reader's end raises or lowers the marks once, before or after the   *)
(* writer comes up against its own.                                        *)
FlowMarks == {[Plain EXCEPT !.Hwm = Both(3, 2), !.MayNodelay = {},
                            !.MaySetHwm = {"socket"}, !.NewHwm = {1, 5},
                            !.MaxMsg = Both(7, 0), !.MaxSetHwm = 1]}

(* Either mark of either end is raised, lowered and switched off, twice. *)
Marks == {[Plain EXCEPT !.Hwm = Both(3, 2), !.MayNodelay = {}, !.MaySetHwm = {"session"},
                        !.NewHwm = {0, 1, 4}, !.MaxMsg = Both(0, 0),
                        !.MaxSetHwm = 2]}

TermFlowMarks == Term \cup Flow \cup FlowMarks \cup Marks

(* The session reconnects twice under a writing socket, and both users     *)
(* terminate.                                                              *)
Hiccup == {[Plain EXCEPT !.MayHiccup = {"session"}, !.MayTerminate = End,
                         !.MaxMsg = Both(1, 2), !.MaxHiccup = 2, !.MaxTerminate = 1]}

(* The session reconnects while the socket terminates. *)
LostDelimiter == {[Plain EXCEPT !.Hwm = Both(2, 1), !.MayHiccup = {"session"},
                                !.MayTerminate = {"socket"}, !.MaxMsg = Both(0, 1),
                                !.MaxHiccup = 1, !.MaxTerminate = 1]}

(* The session reconnects between two parts of a message. *)
SplitMessage == {[Plain EXCEPT !.Hwm = Both(2, 1), !.MayHiccup = {"session"},
                               !.MaxMsg = Both(0, 1), !.MaxPart = 2, !.MaxHiccup = 1]}

(* A session writes a credential before its first message. *)
Credential == {[Plain EXCEPT !.Kind = Both({"credential"}, {}), !.MaxMsg = Both(2, 0)]}

(* The marks are raised while a writer is stopped at the old ones. *)
HwmRaised == {[Plain EXCEPT !.MaySetHwm = {"socket"}, !.NewHwm = {3},
                            !.MaxMsg = Both(2, 0), !.MaxSetHwm = 1]}

(* The marks are lowered before a writer comes up against them. *)
HwmLowered == {[Plain EXCEPT !.Hwm = Both(7, 7), !.MaySetHwm = {"socket"}, !.NewHwm = {3},
                             !.MaxMsg = Both(7, 0), !.MaxSetHwm = 1]}

(* The socket's marks are changed while its pipe waits for the last ack. *)
HwmToDeleted == {[Plain EXCEPT !.Hwm = Both(2, 1), !.MaySetHwm = {"socket"}, !.NewHwm = {1},
                               !.MayTerminate = {"session"}, !.MaxSetHwm = 1,
                               !.MaxTerminate = 1]}

(* Two inproc sockets: the first had SNDHWM 4 and RCVHWM 1, the second 1   *)
(* and 1 when they were connected; a boost is the other socket's mark.     *)
(* Then the first lowers its marks.                                        *)
InprocMarks == {[Plain EXCEPT !.Hwm = Both(5, 2), !.InBoost = Both(1, 4),
                              !.OutBoost = Both(1, 1), !.MayNodelay = {},
                              !.MaySetHwm = {"session"}, !.NewHwm = {1}, !.MaxSetHwm = 1]}
=============================================================================
