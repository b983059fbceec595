----------------------------- MODULE MCServices -----------------------------
(***************************************************************************)
(* The services that stand alone, over sockets, files, mapped files,       *)
(* kernel objects, clocks and counters, of both systems.  They share no    *)
(* state, so one of them is chosen and the others stay where they start;   *)
(* the sockets of Linux and of Windows are two services on the same        *)
(* channel tables, the stopwatches on the same stopwatch.                  *)
(***************************************************************************)
EXTENDS VmSocketWin32, VmMmap, VmMmapWin32, VmTempFiles, VmFileGets,
        VmFileScan, VmThreadWin32, VmSyncWin32, VmTimeWin32, VmCpuLoad, VmDebug,
        VmFileName

VARIABLE service

\* All files of up to four characters.
ShortTexts == UNION {[1 .. n -> Char] : n \in 0 .. 4}

\* Whole lines and parts of lines, with and without words, blanks, tabs and
\* commas.
WrittenStrings ==
  {<<"x", "lf">>, <<"y", "blank">>, <<"tab", "y", "x", "lf">>,
   <<"x", "comma", "y", "lf">>, <<"x", "tab", "y", "lf">>, <<"lf">>}

\* Names of up to four characters, and the parts to make names of.
ShortNames == UNION {[1 .. n -> {"a", SLASH, "."}] : n \in 0 .. 4}
SomePaths == {NoPart, <<"a">>, <<"a", "b">>, <<"a", SLASH, "b">>}
SomeBases == {NoPart, <<"a">>, <<"b", "a">>}
SomeSuffixes == {NoPart, <<"a">>, <<"a", "b">>}

fileVars == <<mmapVars, mmapWin32Vars, tempVars, getsVars, scanVars>>
kernelVars == <<socketVars, winsockVars, win32Vars, syncVars>>
countVars == <<timeVars, timevalVars, cpuVars, debugVars, nameVars>>

Init ==
  /\ service \in {"socket", "socket win32", "mmap", "mmap win32", "temporary",
                  "gets", "scan", "thread win32", "sync win32", "time",
                  "time win32", "timeval", "cpu", "debug", "names"}
  /\ SocketInit /\ WinsockInit
  /\ service \in {"socket", "socket win32"} \/ \A h \in Socket : flags[h] = {}
  /\ MmapInit
  /\ MmapWin32Init
  /\ TempInit
  /\ GetsInit /\ (service = "gets" \/ (text = <<>> /\ nchar = 2))
  /\ ScanInit
  /\ Win32Init
  /\ SyncInit /\ (service = "sync win32" \/ evManual)
  /\ TimeInit
  /\ TimevalInit
  /\ CpuInit /\ (service = "cpu" \/ dbuf.ticks = 0)
  /\ DebugInit /\ (service = "debug" \/ older = {})
  /\ NameInit

Next ==
  \/ /\ service = "socket" /\ SocketNext
     /\ UNCHANGED <<service, fileVars, countVars, winsockVars, win32Vars, syncVars>>
  \/ /\ service = "socket win32" /\ WinsockNext
     /\ UNCHANGED <<service, fileVars, countVars, win32Vars, syncVars>>
  \/ /\ service = "thread win32" /\ Win32Next
     /\ UNCHANGED <<service, fileVars, countVars, socketVars, winsockVars, syncVars>>
  \/ /\ service = "sync win32" /\ SyncNext
     /\ UNCHANGED <<service, fileVars, countVars, socketVars, winsockVars, win32Vars>>
  \/ /\ service = "mmap" /\ MmapNext
     /\ UNCHANGED <<service, kernelVars, countVars, mmapWin32Vars, tempVars,
                    getsVars, scanVars>>
  \/ /\ service = "mmap win32" /\ MmapWin32Next
     /\ UNCHANGED <<service, kernelVars, countVars, mmapVars, tempVars,
                    getsVars, scanVars>>
  \/ /\ service = "temporary" /\ TempNext
     /\ UNCHANGED <<service, kernelVars, countVars, mmapVars, mmapWin32Vars,
                    getsVars, scanVars>>
  \/ /\ service = "gets" /\ GetsNext
     /\ UNCHANGED <<service, kernelVars, countVars, mmapVars, mmapWin32Vars,
                    tempVars, scanVars>>
  \/ /\ service = "scan" /\ ScanNext
     /\ UNCHANGED <<service, kernelVars, countVars, mmapVars, mmapWin32Vars,
                    tempVars, getsVars>>
  \/ /\ service = "time" /\ TimeNext
     /\ UNCHANGED <<service, kernelVars, fileVars, timevalVars, cpuVars, debugVars, nameVars>>
  \/ /\ service = "time win32" /\ WinTimeNext
     /\ UNCHANGED <<service, kernelVars, fileVars, cpuVars, debugVars, nameVars>>
  \/ /\ service = "timeval" /\ TimevalNext
     /\ UNCHANGED <<service, kernelVars, fileVars, timeVars, cpuVars, debugVars, nameVars>>
  \/ /\ service = "cpu" /\ CpuNext
     /\ UNCHANGED <<service, kernelVars, fileVars, timeVars, timevalVars, debugVars,
                    nameVars>>
  \/ /\ service = "debug" /\ DebugNext
     /\ UNCHANGED <<service, kernelVars, fileVars, timeVars, timevalVars, cpuVars,
                    nameVars>>
  \/ /\ service = "names" /\ NameNext
     /\ UNCHANGED <<service, kernelVars, fileVars, timeVars, timevalVars, cpuVars,
                    debugVars>>

vars == <<service, kernelVars, fileVars, countVars>>

Spec == Init /\ [][Next]_vars

\* Of the service chosen; the others keep their initial values.
TypeOK ==
  /\ service \in {"socket", "socket win32"} => SocketTypeOK /\ WinsockTypeOK
  /\ service = "thread win32" => Win32TypeOK
  /\ service = "sync win32" => SyncTypeOK
  /\ service = "mmap" => MmapTypeOK
  /\ service = "mmap win32" => MmapWin32TypeOK
  /\ service = "temporary" => TempTypeOK
  /\ service = "gets" => GetsTypeOK
  /\ service = "scan" => ScanTypeOK
  /\ service \in {"time", "time win32", "timeval"} => TimeTypeOK /\ TimevalTypeOK
  /\ service = "cpu" => CpuTypeOK
  /\ service = "debug" => DebugTypeOK
  /\ service = "names" => NameTypeOK

\* WinsockHeld, of the system that has Winsock: startups and cleanups match,
\* whatever initialisation failed.
SocketsHoldWinsock == service = "socket win32" => WinsockHeld
=============================================================================
