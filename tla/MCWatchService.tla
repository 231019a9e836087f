---------------------------- MODULE MCWatchService ----------------------------
(* WatchService with the modules of WatchService.ini, without the interface. *)
EXTENDS WatchService

MCOrder == <<"mysql", "payment_processor", "updater">>
MCStartPriority == [mysql |-> 0, payment_processor |-> 1, updater |-> 3]
MCClosePriority == [mysql |-> 3, payment_processor |-> 0, updater |-> 2]
MCMaxStarts == [mysql |-> 0, payment_processor |-> 0, updater |-> 1]

=============================================================================
