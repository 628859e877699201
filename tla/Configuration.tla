---------------------------- MODULE Configuration ----------------------------
(***************************************************************************)
(* Both halves of ConfigParser: the text of the files that may be written  *)
(* (ConfigText) and the blocks, as the program starts with them and serves *)
(* requests (ConfigSelect).  ConfigText has no state, so what it says of   *)
(* the files is looked at where the program is about to read one.          *)
(***************************************************************************)
EXTENDS ConfigSelect, ConfigText

Begins == stage = "file" /\ configs = <<>>

\* Every file is read as it was written, or refused (FilesAreRead).
FileIsRead == Begins => FilesAreRead

\* A file that lacks a brace or a semicolon is refused (LackingAreRefused).
MissingIsRefused == Begins => LackingAreRefused

\* Blocks and locations are set to what their directives say (SettingsAreSaid).
SettingsAreWritten == Begins => SettingsAreSaid

=============================================================================
