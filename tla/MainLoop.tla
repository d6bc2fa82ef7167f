------------------------------ MODULE MainLoop ------------------------------
(***************************************************************************)
(* main() (main.c): built-in modules, the command line, the plugins of the  *)
(* default directory, the call the command line asks for, and the main loop *)
(* until deai is destroyed.  User code (the called method, and callbacks of *)
(* the loop) takes and drops references to deai and calls di:exit.          *)
(***************************************************************************)
EXTENDS Naturals, Sequences

CONSTANTS
    Plugin,         \* the files of the plugin directory, in its order
    ModuleOf,       \* the module a plugin registers
    Command,        \* command lines: [module, args], module "" for deai itself
    MaxKeepers      \* bound on the references that user code holds to deai

EXIT_FAILURE == 1
Builtin == {"event", "log", "os", "spawn"}

VARIABLES
    mpc,        \* where main is
    command,    \* the command line, or NoCommand
    modules,    \* the registered modules
    dirent,     \* the next entry of the directory
    keepers,    \* strong references to deai that user code holds
    owned,      \* references that main holds: p, and mod if it is deai
    exitCode, quit,
    result,     \* of the call: "unset", "nil", "object" or "error"
    asked,      \* the last code given to di:exit
    failed,     \* the program could not do what it was asked to
    status      \* the exit status

mainVars == <<mpc, command, modules, dirent, keepers, owned, exitCode, quit, result, asked,
              failed, status>>

NoCommand == [module |-> "none", args |-> <<>>]

MainInit ==
    /\ mpc = "init" /\ command \in Command \cup {NoCommand}
    /\ modules = Builtin /\ dirent = 1
    /\ keepers = 0 /\ owned = 1
    /\ exitCode = 0 /\ quit = FALSE /\ result = "unset"
    /\ asked = 0 /\ failed = FALSE /\ status = 0

\* exit(): nothing is cleaned up
ExitNow(code) ==
    /\ mpc' = "exited" /\ status' = code /\ failed' = TRUE
    /\ UNCHANGED <<command, modules, dirent, keepers, owned, exitCode, quit, result, asked>>

Goto(pc) ==
    /\ mpc' = pc
    /\ UNCHANGED <<command, modules, dirent, keepers, owned, exitCode, quit, result, asked,
                   failed, status>>

----------------------------------------------------------------------------
(* The command line *)

\* The arguments up to "--", each with a type and a colon in front of its value.
ArgumentsValid(args) ==
    \A i \in 1..Len(args) : (\A j \in 1..i : args[j] # "--") => args[i] = "typed"

Parse ==
    /\ mpc = "init"
    /\ IF command = NoCommand \/ ~ArgumentsValid(command.args)
       THEN ExitNow(EXIT_FAILURE) ELSE Goto("load")

\* load_plugin_from_dir_impl: a plugin that cannot be loaded, or has no entry
\* point, is skipped; a file that cannot be looked at ends the loop.
LoadPlugin(loads) ==
    /\ mpc = "load" /\ dirent <= Len(Plugin)
    /\ modules' = IF loads THEN modules \cup {ModuleOf[Plugin[dirent]]} ELSE modules
    /\ dirent' = dirent + 1
    /\ UNCHANGED <<mpc, command, keepers, owned, exitCode, quit, result, asked, failed, status>>

LoadEnds == mpc = "load" /\ Goto("lookup")

Lookup ==
    /\ mpc = "lookup"
    /\ IF command.module \in modules \cup {""}
       THEN /\ owned' = IF command.module = "" THEN 2 ELSE 1
            /\ mpc' = "call"
            /\ UNCHANGED <<command, modules, dirent, keepers, exitCode, quit, result, asked,
                           failed, status>>
       ELSE ExitNow(EXIT_FAILURE)

----------------------------------------------------------------------------
(* The call *)

\* There is no such method, it cannot be called, or its arguments do not fit.
CallFails ==
    /\ mpc = "call"
    /\ exitCode' = EXIT_FAILURE /\ quit' = TRUE /\ failed' = TRUE
    /\ mpc' = "inspect"
    /\ UNCHANGED <<command, modules, dirent, keepers, owned, result, asked, status>>

CallReturns(r) ==
    /\ mpc = "call"
    /\ result' = r /\ mpc' = "inspect"
    /\ failed' = (failed \/ r = "error")
    /\ UNCHANGED <<command, modules, dirent, keepers, owned, exitCode, quit, asked, status>>

\* The result is looked at as an object also when exit_code was set by a failed
\* call, which leaves it unset, or by di:exit, whatever its type then is.
Inspect ==
    /\ mpc = "inspect"
    /\ \/ /\ exitCode # 0 \/ result \in {"object", "error"}
          /\ result = "error"
          /\ exitCode' = EXIT_FAILURE /\ quit' = TRUE /\ mpc' = "drop"
       \/ /\ exitCode # 0 /\ result \in {"unset", "nil"}
          /\ mpc' = "undefined" /\ UNCHANGED <<exitCode, quit>>
       \/ /\ result # "error"
          /\ mpc' = "drop" /\ UNCHANGED <<exitCode, quit>>
    /\ UNCHANGED <<command, modules, dirent, keepers, owned, result, asked, failed, status>>

----------------------------------------------------------------------------
(* References to deai; di_dtor sets quit and breaks the loop. *)

SettleMain(k, n) ==
    /\ keepers' = k /\ owned' = n
    /\ quit' = (quit \/ k + n = 0)
    /\ mpc' = IF mpc = "mainloop" /\ k + n = 0 THEN "end" ELSE mpc

InUserCode == mpc \in {"call", "mainloop"}

Keep ==
    /\ InUserCode /\ keepers < MaxKeepers
    /\ SettleMain(keepers + 1, owned)
    /\ UNCHANGED <<command, modules, dirent, exitCode, result, asked, failed, status>>

DropKeeper ==
    /\ InUserCode /\ keepers > 0
    /\ SettleMain(keepers - 1, owned)
    /\ UNCHANGED <<command, modules, dirent, exitCode, result, asked, failed, status>>

\* di_prepare_exit: the roots are dropped, and with them k references to deai
PrepareExit(ec, k) ==
    /\ InUserCode /\ k \in 0..keepers
    /\ exitCode' = ec /\ asked' = ec
    /\ SettleMain(keepers - k, owned)
    /\ UNCHANGED <<command, modules, dirent, result, failed, status>>

DropMainTo(quits) ==
    /\ mpc = "drop" /\ owned' = 0
    /\ quit' = (quit \/ keepers = 0)
    /\ mpc' = IF quits THEN "end" ELSE "mainloop"
    /\ UNCHANGED <<command, modules, dirent, keepers, exitCode, result, asked, failed, status>>

\* Mutant: quit was read before the references were dropped.
DropMainStale == DropMainTo(quit)

\* mod and p are given up; deai goes with them unless it is kept.
DropMain == DropMainTo(quit')

\* di_sighandler
Interrupt == mpc = "mainloop" /\ Goto("end")

\* The roots are released, and main returns.
End ==
    /\ mpc = "end"
    /\ mpc' = "exited" /\ status' = exitCode
    /\ UNCHANGED <<command, modules, dirent, keepers, owned, exitCode, quit, result, asked, failed>>

MainNext ==
    \/ Parse \/ LoadEnds \/ Lookup \/ CallFails \/ Inspect \/ DropMain \/ Interrupt \/ End
    \/ \E loads \in BOOLEAN : LoadPlugin(loads)
    \/ \E r \in {"nil", "object", "error"} : CallReturns(r)
    \/ Keep \/ DropKeeper
    \/ \E ec \in 0..2, k \in 0..MaxKeepers : PrepareExit(ec, k)

MainSpec == MainInit /\ [][MainNext]_mainVars

----------------------------------------------------------------------------
\* The loop is entered, and runs, only while deai exists: main reads p->loop
\* after it has given its reference up (main.c:692).
LoopHasDeai == mpc = "mainloop" => keepers > 0

\* The exit status tells a failure, and else is the code that was last given to
\* di:exit, through a call that failed, an error it returned, and exits asked
\* for before and inside the loop.
StatusFaithful ==
    mpc = "exited" => status = IF failed THEN EXIT_FAILURE ELSE asked

\* The loop has the deai object it works on, and the exit status is true.
MainSound == LoopHasDeai /\ StatusFaithful
=============================================================================
