------------------------------ MODULE MCRegistry -------------------------------
(* Model checking of Registry: the commands and the disks to start from, a registry in    *)
(* its present home or deprecated ones in both layers.                                   *)
EXTENDS Registry

CONSTANTS m1, m2

Plain(op, id) == [op |-> op, id |-> id, layer |-> "user", flag |-> "none",
                  tty |-> FALSE, stdin |-> FALSE]
MCCommands == {Plain("use", m1), Plain("unregister", m1),
               [Plain("register", m2) EXCEPT !.tty = TRUE],
               [Plain("register", m2) EXCEPT !.stdin = TRUE, !.layer = "system"]}

One == [Absent EXCEPT !.present = TRUE, !.managers = {m1}, !.selected = m1]
Neither == [l \in Layer |-> Absent]
MCDisks == {[file |-> [Neither EXCEPT !["user"] = One], legacy |-> Neither],
            [file |-> Neither, legacy |-> [l \in Layer |-> One]]}
===============================================================================
