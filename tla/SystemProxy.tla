---------------------------- MODULE SystemProxy ----------------------------
(***************************************************************************)
(* The Windows proxy setting (src/internal/sysproxy/sysproxy.go) and what  *)
(* the application remembers of it (src/app_sysproxy.go).                  *)
(***************************************************************************)
CONSTANT RegistryFails    \* which registry calls may fail

ASSUME RegistryAssumption == RegistryFails \subseteq {"get", "set", "restore"}

VARIABLES
    windows,     \* the setting: the "user"'s own, "ours", or the proxy "off"
    proxySet,
    proxyPrev

proxyVars == <<windows, proxySet, proxyPrev>>

\* "off" is the zero State.
Settings == {"user", "ours", "off"}

ProxyInit == windows = "user" /\ proxySet = FALSE /\ proxyPrev = "off"

ProxyTypeOK == windows \in Settings /\ proxySet \in BOOLEAN /\ proxyPrev \in Settings

\* A write that fails does so when the key is opened, with nothing written.
\* sysproxy.Set of our address, or of what was there before.
Set(s) == windows' = s /\ UNCHANGED <<proxySet, proxyPrev>>

RecordForgetsPrevious(previous) == proxySet' = TRUE /\ UNCHANGED <<windows, proxyPrev>>

\* The end of SetSystemProxy(true), under a.mu.
Record(previous) ==
    /\ proxyPrev' = previous /\ proxySet' = TRUE
    /\ UNCHANGED windows

\* The beginning of clearSystemProxy, under a.mu.
TakeFlag == proxySet' = FALSE /\ UNCHANGED <<windows, proxyPrev>>
=============================================================================
