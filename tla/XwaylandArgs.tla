---------------------------- MODULE XwaylandArgs ----------------------------
(***************************************************************************)
(* xwayland_wrapper.c: what wlroots executes as its X server.  It builds   *)
(* the command line of PRoot, with Xwayland and the arguments of wlroots   *)
(* at its end, and executes that.                                          *)
(*                                                                         *)
(* A directory is named by the variable that holds it and is "unset",      *)
(* "short" or "long": too long for the 512 bytes of a bind, of which then  *)
(* the end is cut off, and with it the place the directory is bound to.    *)
(***************************************************************************)
EXTENDS Integers, Sequences

CONSTANTS
  Options,      \* what wlroots passes to an X server
  MaxOptions    \* bound: how many of them

VARIABLES
  xpc,          \* "none", "main", "built", "running", "failed"
  env,          \* env[v]: the five variables of the environment
  argv,
  room,         \* the pointers args was allocated for
  args          \* a sequence; args[i] of the program is args[i + 1]

xwaylandVars == <<xpc, env, argv, room, args>>

Binaries == {"PROOT_BIN", "PROOT_LOADER", "PROOT_ROOTFS"}
Directories == {"CACHE_DIR", "XDG_DIR"}
NoEnv == [v \in Binaries \cup Directories |-> "unset"]
Environments ==
  {e \in [Binaries \cup Directories -> {"unset", "short", "long"}] :
     \A v \in Binaries : e[v] # "long"}

NULL == "NULL"

ASSUME XwaylandArgsAssumption == NULL \notin Options /\ MaxOptions \in Nat

OptionLists == UNION {[1 .. n -> Options] : n \in 0 .. MaxOptions}

XwaylandInit ==
  xpc = "none" /\ env = NoEnv /\ argv = <<>> /\ room = 0 /\ args = <<>>

(* snprintf(): the directory and the place it is bound to. *)
bind_cache == IF env["CACHE_DIR"] = "long" THEN "CACHE_DIR" ELSE "CACHE_DIR:/tmp"
bind_xdg ==
  IF env["XDG_DIR"] = "long" THEN "XDG_DIR" ELSE "XDG_DIR:/tmp/xdg-runtime"

-----------------------------------------------------------------------------
(* Faulty variant of the definition below, to see that the property        *)
(* notices the mistake it is about.                                        *)
nargsNoAc == 15 + Len(argv)   \* as before "-ac" was added

-----------------------------------------------------------------------------
(* main() *)

Missing ==
  /\ xpc = "main"
  /\ \E v \in DOMAIN env : env[v] = "unset"
  /\ xpc' = "failed"
  /\ UNCHANGED <<env, argv, room, args>>

nargs == 16 + Len(argv)

Build ==
  /\ xpc = "main"
  /\ \A v \in DOMAIN env : env[v] # "unset"
  /\ room' = nargs + 1
  /\ args' =
       <<"PROOT_BIN", "-0", "--link2symlink", "-r", "PROOT_ROOTFS",
         "-b", "/dev", "-b", "/proc", "-b", "/sys", "-b", bind_cache,
         "-b", bind_xdg, "/usr/bin/Xwayland", "-ac">> \o Tail(argv) \o <<NULL>>
  /\ xpc' = "built"
  /\ UNCHANGED <<env, argv>>

(* execvp(), which returns only if it fails. *)
Execute ==
  /\ xpc = "built"
  /\ xpc' \in {"running", "failed"}
  /\ UNCHANGED <<env, argv, room, args>>

Main == Missing \/ Build \/ Execute

(* wlroots (external) starts an X server when a client wants one, and      *)
(* again when it has ended.  argv[0] is always there.                      *)
Launch ==
  /\ xpc = "none"
  /\ xpc' = "main"
  /\ env' \in Environments
  /\ \E options \in OptionLists : argv' = <<"Xwayland">> \o options
  /\ UNCHANGED <<room, args>>

Ends ==
  /\ xpc \in {"running", "failed"}
  /\ xpc' = "none" /\ env' = NoEnv /\ argv' = <<>> /\ room' = 0 /\ args' = <<>>

XwaylandNext == Main \/ Launch \/ Ends

-----------------------------------------------------------------------------
(* How PRoot (external) reads a command line: options up to the first      *)
(* word that is none, and the command from there on.                       *)
Understood(line) ==
  LET from[i \in 2 .. Len(line) + 2] ==
        IF i > Len(line)
        THEN [rootfs |-> "/", binds |-> {}, command |-> <<>>]
        ELSE IF line[i] \in {"-0", "--link2symlink"} THEN from[i + 1]
        ELSE IF line[i] \in {"-r", "-b"} /\ i < Len(line)
        THEN IF line[i] = "-r"
             THEN [from[i + 2] EXCEPT !.rootfs = line[i + 1]]
             ELSE [from[i + 2] EXCEPT !.binds = @ \cup {line[i + 1]}]
        ELSE [rootfs |-> "/", binds |-> {},
              command |-> SubSeq(line, i, Len(line))]
  IN  from[2]

(* Up to the NULL. *)
CommandLine ==
  LET ends == {i \in DOMAIN args : args[i] = NULL}
      end == CHOOSE i \in ends : \A j \in ends : i <= j
  IN  SubSeq(args, 1, end - 1)

(* Line 45: "proot args + Xwayland path + -ac + original args".  What runs *)
(* is Xwayland, in the root file system it was given, with the directories *)
(* at their places and the options of wlroots in their order, none of them *)
(* taken for one of PRoot's; and the vector fits its memory.  A directory  *)
(* is at its place only if its name is short enough.                       *)
RunsXwayland ==
  /\ Len(args) <= room
  /\ xpc = "running" =>
       /\ \A v \in DOMAIN env : env[v] # "unset"
       /\ args[1] = "PROOT_BIN"
       /\ Understood(CommandLine).rootfs = "PROOT_ROOTFS"
       /\ Understood(CommandLine).command
            = <<"/usr/bin/Xwayland", "-ac">> \o Tail(argv)
       /\ {"/dev", "/proc", "/sys"} \subseteq Understood(CommandLine).binds
       /\ "CACHE_DIR:/tmp" \in Understood(CommandLine).binds
            <=> env["CACHE_DIR"] = "short"
       /\ "XDG_DIR:/tmp/xdg-runtime" \in Understood(CommandLine).binds
            <=> env["XDG_DIR"] = "short"
=============================================================================
