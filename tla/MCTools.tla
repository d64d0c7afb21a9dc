------------------------------ MODULE MCTools ------------------------------
(* The host program and the tools around their files, on small instances: the  *)
(* command lines of host.c and of sign_tool.c, the files and the device of two *)
(* host programs, three programs that copy a file, a key read out of its text. *)
(* A behaviour works one of them, the others rest.                            *)
EXTENDS HostFiles, CopyFile, CmdlineParse, KeyText

CONSTANTS stale, other, p1, p2, p3, w1, w2, w3, w4, w5, w6, w7, w8, w9

VARIABLES part          \* what is worked

-----------------------------------------------------------------------------
\* A bound of the run: words come in this order, at most one of them is the first
\* one again; the options of sign_tool come in the order of their table.
Sorted == <<w1, w2, w3, w4, w5, w6, w7, w8, w9>>
FewLines ==
  /\ \A k \in 1 .. Pairs : k <= 9 /\ argv[2 * k + 1] \in {w1, Sorted[k], "-image"}
  /\ \A k, n \in 2 .. Pairs : argv[2 * k + 1] = w1 /\ argv[2 * n + 1] = w1 => k = n
  /\ tool = "sign_tool" =>
       \A k \in 2 .. Pairs : {argv[2 * k], argv[2 * k - 2]} \subseteq Option =>
         Place(tool, argv[2 * k - 2]) < Place(tool, argv[2 * k])

-----------------------------------------------------------------------------
(* Keys of three bytes of base-3 digits, two bytes to a line: lines end inside *)
(* the key, and with the mark at other bytes.                                 *)
SmallDigits == <<"0", "1", "2">>
AfterKey == { <<>>,                                                       \* the end
              <<"p", "u", "b", ":", "newline", " ", " ", " ", " ", "0", "1", ":">>, \* the public key
              <<"A", "1", " ", "2", "1", ":">> }                                \* the name of the curve

-----------------------------------------------------------------------------
Parts == {"options", "host files", "copy", "key"}
KeyRests == /\ key = <<>> /\ public = TRUE /\ text = <<>> /\ out = <<>> /\ skip_z = TRUE
            /\ i = 1 /\ cur = 0 /\ b = 0 /\ number = 0 /\ number_numbers = 0
ToolsInit == /\ part \in Parts
             /\ Init /\ CopyInit /\ LineInit
             /\ part # "options" => tool = "host"
             /\ IF part = "key" THEN KeyInit ELSE KeyRests
ToolsNext ==
  /\ UNCHANGED part
  /\ part # "copy"       => UNCHANGED copyVars
  /\ part # "host files" => UNCHANGED vars
  /\ part # "key"        => UNCHANGED keyVars
  /\ part # "options"    => UNCHANGED lineVars
  /\ \/ part = "copy" /\ CopyNext
     \/ part = "host files" /\ Next
     \/ part = "key" /\ KeyNext
     \/ part = "options" /\ LineNext
ToolsSpec == ToolsInit /\ [][ToolsNext]_<<part, vars, copyVars, lineVars, keyVars>>
=============================================================================
