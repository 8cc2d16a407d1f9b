----------------------------- MODULE MCUpdater -----------------------------
EXTENDS Updater

\* Two deeds of the user, four commands of a script
MCBudget == [gui |-> 2, auto |-> 2, script |-> 4]
=============================================================================
