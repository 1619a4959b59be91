------------------------------ MODULE MCAppView ------------------------------
(***************************************************************************)
(* A small instance of AppView: a browser that is restarted under another  *)
(* pid, with a child process, an editor that takes over the browser's pid, *)
(* and rows of them with two fingerprints, of a process that has gone and  *)
(* of one that could not be resolved.                                      *)
(***************************************************************************)
EXTENDS AppView

Listed(pid, name, application) ==
    [pid |-> pid, name |-> name, application |-> application,
     icon |-> IF application THEN name ELSE None]

MCProcess == {Listed(1, "browser", TRUE), Listed(1, "editor", TRUE),
              Listed(2, "browser", TRUE), Listed(2, "browser", FALSE)}

Of(pid, process, https, ja4) ==
    [pid |-> pid, process |-> process, https |-> https, ja4 |-> ja4]

MCEvent == {Of(1, "browser", TRUE, "first"), Of(2, "browser", TRUE, "second"),
            Of(2, "browser", FALSE, None), Of(1, "editor", TRUE, "first"),
            Of(None, "unknown", TRUE, "second")}
=============================================================================
