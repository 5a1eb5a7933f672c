-------------------------- MODULE MCDatagramReceiver --------------------------
(* Instances of DatagramReceiver for TLC. *)
EXTENDS DatagramReceiver, TLC

CONSTANTS k1, k2

\* Applications with every way to stop, fail and cancel, in both dispatch modes.  A
\* handler that may stop, or raise, may also not.  The opened barrier cannot fail in
\* BACKGROUND mode without stops and overlap, nor in the last.
AllSetups == [mode : {"BACKGROUND"}, stops : {TRUE}, raises : {FALSE}, cancel : BOOLEAN,
              overlap : {FALSE}]
             \cup [mode : {"BACKGROUND"}, stops : {FALSE}, raises : {FALSE}, cancel : {FALSE},
                   overlap : BOOLEAN]
             \cup [mode : {"INLINE"}, stops : {TRUE}, raises : {TRUE}, cancel : BOOLEAN,
                   overlap : {FALSE}]
             \cup [mode : {"INLINE"}, stops : {TRUE}, raises : {FALSE}, cancel : {FALSE},
                   overlap : {FALSE}]
=============================================================================
