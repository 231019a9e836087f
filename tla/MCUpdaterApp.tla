----------------------------- MODULE MCUpdaterApp -----------------------------
(* UpdaterApp with a folder, an archive, a folder that skips existing files *)
(* and an optional one; one file is of no component.                        *)
EXTENDS UpdaterApp

CONSTANTS exe, lib, doc, ini, ad, junk

MCFilesOf ==
  [program |-> {exe}, library |-> {lib, doc}, settings |-> {ini}, advert |-> {ad}]

\* An older installation, and a new version cut down to one file.
MCFirstDisks ==
  {[f \in Files |-> IF f = doc THEN "new" ELSE "old"],
   [f \in Files |-> IF f = lib THEN "new" ELSE "none"]}
=============================================================================
