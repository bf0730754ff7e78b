------------------------- MODULE MCFirmwareUpgrade -------------------------
EXTENDS FirmwareUpgrade

File(n, k, v, b, s, c, z) ==
    [name |-> n, kind |-> k, ver |-> v, base |-> b, size |-> s, build |-> c, zip |-> z]

\* Two builds of a file of parameters; a firmware and a zipped app; zipped
\* parameters and a WiFi firmware; an empty app
MCTasks ==
    {<<File("font", "PF", 2, 1, 2, 1, FALSE)>>,
     <<File("font", "PF", 2, 1, 2, 2, FALSE)>>,
     <<File("fw", "UF", 2, 1, 1, 1, FALSE), File("app", "APP", 2, 1, 1, 1, TRUE)>>,
     <<File("tips", "PF", 2, 1, 1, 1, TRUE), File("wifi", "WB", 2, 1, 1, 1, FALSE)>>,
     <<File("none", "APP", 2, 1, 0, 1, FALSE)>>}
=============================================================================
