------------------------------ MODULE MCCommands ------------------------------
(***************************************************************************)
(* A small vocabulary for TLC.                                             *)
(***************************************************************************)
EXTENDS Commands

CONSTANTS help, coach, coaches, ci, invite, all, inv

Command(name, command, aliases) ==
  [name |-> name, command |-> command, aliases |-> aliases]

\* A command with subcommands and aliases, a definition that takes the key of another,
\* one that takes a name, and one whose alias is a command.
MCDefinitions ==
  {Command("help", <<help>>, {}),
   Command("coach", <<coach>>, {<<coaches>>}),
   Command("coach-invite", <<coach, invite>>, {<<ci>>}),
   Command("coach-invite-all", <<coach, invite, all>>, {}),
   Command("coach", <<coach, all>>, {<<inv>>}),
   Command("guide", <<help, all>>, {<<help>>})}
==============================================================================
