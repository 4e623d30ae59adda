-------------------------- MODULE MCProcessCapture --------------------------
EXTENDS ProcessCapture

\* git; exec with and without an idle timeout; an agent with its prompt on stdin;
\* codex, whose stdout is a file.
MCModes ==
    {[isolate |-> FALSE, idle |-> FALSE, cleanup |-> FALSE, stdin |-> FALSE, file |-> FALSE],
     [isolate |-> TRUE,  idle |-> FALSE, cleanup |-> TRUE,  stdin |-> FALSE, file |-> FALSE],
     [isolate |-> TRUE,  idle |-> TRUE,  cleanup |-> TRUE,  stdin |-> FALSE, file |-> FALSE],
     [isolate |-> TRUE,  idle |-> TRUE,  cleanup |-> FALSE, stdin |-> TRUE,  file |-> FALSE],
     [isolate |-> TRUE,  idle |-> TRUE,  cleanup |-> TRUE,  stdin |-> TRUE,  file |-> TRUE]}
=============================================================================
