------------------------------- MODULE MCAudit -------------------------------
(* A readable or unreadable directory with two files, and files beside it; *)
(* an odd directory, an odd file, and a pipe called *.yaml.                *)
EXTENDS Audit

Item(ext, inside, problems, odd) ==
  [ext |-> ext, inside |-> inside, problems |-> problems, odd |-> odd, pipe |-> FALSE]

Pipe(ext) == [Item(ext, 0, 0, TRUE) EXCEPT !.pipe = TRUE]

MCTree == <<Item("dir", 2, 0, FALSE),
              Item("go", 0, 2, FALSE),
              Item("yaml", 0, 1, FALSE),
            Item("ts", 0, 1, FALSE),
            Item("dir", 1, 0, TRUE),
              Item("go", 0, 1, FALSE),
            Item("go", 0, 1, TRUE),
            Pipe("yaml"),
            Item("yaml", 0, 1, FALSE),
            Item("go", 0, 1, FALSE)>>
=============================================================================
