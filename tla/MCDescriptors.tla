--------------------------- MODULE MCDescriptors ---------------------------
(* The instance of Descriptors for TLC.                                    *)
EXTENDS Descriptors

\* Two arguments that may be process substitutions, of every kind, every kind of
\* redirection for the output, and those that differ in the code for the others.
MCOptions ==
  {o \in [sub : {f \in [Sub -> {"none", "command", "pipe", "wpipe"}] :
                   f[1] \in {"none", "command"} /\ f[2] # "command"},
          slot : [in : {"none", "owned", "path", "given"},
                  out : {"none", "given", "owned", "path", "file", "ownedfile", "bad"},
                  err : {"none", "owned"}],
          pass : {"none", "given", "owned"},
          pty : {"none", "linux", "macos", "freebsd"}] :
     o.pass = "none" \/ o.slot.err = "owned"}

\* Nothing but an output file object with close=True.
FileOptions ==
  {[sub |-> [s \in Sub |-> "none"],
    slot |-> [in |-> "none", out |-> "ownedfile", err |-> "none"],
    pass |-> "none", pty |-> "none"]}

=============================================================================
