-------------------------- MODULE MCPortalSettings --------------------------
(* The instances TLC checks of PortalSettings.                                *)
EXTENDS PortalSettings, TLC
CONSTANTS w1, w2, terms, a1, a2
OneWorker == {w1}
TwoWorkers == {w1, w2}
Bundled == {terms}
NoIds == {}
OneId == {a1}
NoBranding == {}
JustLogo == {"logo"}
NoThemes == {}
OneTheme == {"dark"}
Environment == [base |-> "env", version |-> "2.2"]
\* The registry of the environment is silent; another one advertises 3.0.
Discovery == [b \in {"new"} |-> "3.0"]
\* The bodies of the settings page's tabs.
ConnectionTab == [base |-> "new", version |-> "2.2", themes |-> Absent]
OtherConnection == [base |-> "other", version |-> "2.2", themes |-> Absent]
ClearedConnection == [base |-> Blank, version |-> Blank, themes |-> Absent]
ThemeTab == [base |-> Absent, version |-> Absent, themes |-> {"dark"}]
EmptyLibrary == [base |-> Absent, version |-> Absent, themes |-> {}]
GeneralTab == [base |-> Absent, version |-> Absent, themes |-> Absent]
AllTabs == {ConnectionTab, OtherConnection, ClearedConnection, ThemeTab,
            EmptyLibrary}
JustGeneral == {GeneralTab}
=============================================================================
