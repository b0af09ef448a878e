----------------------- MODULE MCSettingsTransaction ------------------------
\* SettingsTransaction with one phone.
EXTENDS SettingsTransaction
MCPhones == {"phone"}
=============================================================================
