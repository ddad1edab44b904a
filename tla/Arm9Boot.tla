------------------------------ MODULE Arm9Boot ------------------------------
(***************************************************************************)
(* How arm9 chooses the NAND to boot (arm9/source/main.c), over many       *)
(* boots: what one boot leaves in the registers of the MCU (config.c) and  *)
(* in CFG_BOOTENV is what the next one, or a firmlaunch, goes by.  Power   *)
(* may be lost anywhere, files and cards change between boots.             *)
(*                                                                         *)
(* An EmuNAND is its index.  Splashes, payloads, the PIN, the patches and  *)
(* boots from NTRCARD (which never come to choose a NAND) are left out.    *)
(***************************************************************************)
EXTENDS Integers

CONSTANTS
  EmuIndices,      \* indices of EmuNANDs that can be chosen
  Presses,         \* sets of buttons that are held
  AutobootModes,   \* values of AUTOBOOTMODE
  TlncLengths      \* lengths that TWL software puts into a TLNC block; 0: no block

\* The EmuNAND that the D-pad asks for, unless none or several of its keys are held.
AskedIndex(held, otherwise) ==
  LET dpad == held \cap {"UP", "RIGHT", "DOWN", "LEFT"}
  IN  CASE dpad = {"UP"} -> 0 [] dpad = {"RIGHT"} -> 1 [] dpad = {"DOWN"} -> 2
        [] dpad = {"LEFT"} -> 3 [] OTHER -> otherwise

ASSUME Arm9BootAssumption ==
  /\ 0 \in EmuIndices /\ EmuIndices \subseteq 0 .. 3
  /\ {} \in Presses /\ \A held \in Presses : AskedIndex(held, 0) \in EmuIndices
  /\ 0 \in AutobootModes /\ AutobootModes \subseteq 0 .. 2 /\ TlncLengths \subseteq 0 .. 255

VARIABLES
  bootPlace,        \* "off", "start", "read", "options", "defaults", "forced", "chosen", "running"
  bootType,         \* "B9S" or "FIRMLAUNCH"
  firmType,
  bootenv,          \* CFG_BOOTENV: 0 cold, 1 reboot, 3 from TWL, 7 from AGB
  pressed,          \* the buttons that main looks at
  mcu,              \* the registers: bootCfg, and whether it is "valid", "older" or "invalid"
  ini,              \* config.ini: its settings, and whether it is whole
  configData,       \* the settings in memory
  bootConfig,       \* configData.bootConfig
  oldBootConfig,    \* oldConfig.bootConfig
  needConfig,       \* "create" or "modify"
  nandType, emunandIndex, isNoForceFlagSet,
  emuNands,         \* the EmuNANDs of the card
  isSdMode,
  lastBoot,         \* history: the options of the last boot that was not a firmlaunch
  updated           \* history: boot.firm was replaced by a later version since then

memoryVars == <<configData, bootConfig, oldBootConfig, needConfig>>
optionVars == <<nandType, emunandIndex, isNoForceFlagSet>>
cardVars == <<emuNands, isSdMode>>
bootHistory == <<lastBoot, updated>>
arm9Vars == <<bootPlace, bootType, firmType, bootenv, pressed, mcu, ini, memoryVars,
              optionVars, cardVars, bootHistory>>

BootConfigs == [nand : {"sys", "emu"}, emu : EmuIndices, noForce : BOOLEAN]
ZeroConfig == [nand |-> "sys", emu |-> 0, noForce |-> FALSE]
Settings == [autobootEmu : BOOLEAN, defaultEmu : EmuIndices, autoboot : AutobootModes]
DefaultSettings == [autobootEmu |-> FALSE, defaultEmu |-> 0, autoboot |-> 0]
NoIni == [whole |-> FALSE, settings |-> DefaultSettings]
SafeModeCombo == {"R1", "L1", "A", "UP"}

\* The machine is off: what was in memory is gone.
Off ==
  /\ bootPlace' = "off" /\ bootType' = "B9S" /\ firmType' = "native"
  /\ bootenv' = 0 /\ pressed' = {}
  /\ configData' = DefaultSettings /\ needConfig' = "modify"
  /\ bootConfig' = ZeroConfig /\ oldBootConfig' = ZeroConfig
  /\ nandType' = "sys" /\ emunandIndex' = 0 /\ isNoForceFlagSet' = FALSE
  /\ UNCHANGED <<cardVars, bootHistory>>

-----------------------------------------------------------------------------
(* The world *)

\* A boot begins with nothing in memory.
Starts(type, firm, env) ==
  /\ bootPlace' = "start" /\ bootType' = type /\ firmType' = firm /\ bootenv' = env
  /\ nandType' = "sys" /\ emunandIndex' = 0 /\ isNoForceFlagSet' = FALSE
  /\ configData' = DefaultSettings /\ needConfig' = "modify"
  /\ bootConfig' = ZeroConfig /\ oldBootConfig' = ZeroConfig
  /\ pressed' = {}
  /\ UNCHANGED <<mcu, ini, cardVars, bootHistory>>

PowersOn == bootPlace = "off" /\ Starts("B9S", "native", 0)

\* The system reboots the machine: the register says which firmware ran.
EnvAfter(firm) == CASE firm = "twl" -> 3 [] firm = "agb" -> 7 [] OTHER -> 1

Reboots == bootPlace = "running" /\ Starts("B9S", "native", EnvAfter(firmType))

\* The system starts another firmware: boot.firm runs again, with the title.
Firmlaunches(firm) ==
  /\ bootPlace = "running" /\ firmType = "native"
  /\ Starts("FIRMLAUNCH", firm, bootenv)

\* Power is lost, in the middle of a write to the registers or not.
LosesPower ==
  /\ bootPlace # "off"
  /\ \/ UNCHANGED mcu
     \/ /\ \/ bootPlace = "start" /\ mcu.state # "valid"
           \/ bootPlace \in {"forced", "chosen"} /\ bootType # "FIRMLAUNCH"
        /\ mcu' = [state |-> "invalid", bootCfg |-> ZeroConfig]
  /\ UNCHANGED ini
  /\ Off

\* Another card, with its files and EmuNANDs, or none: CTRNAND has files too.
ChangesCard ==
  /\ bootPlace = "off"
  /\ emuNands' \in SUBSET EmuIndices /\ isSdMode' \in BOOLEAN
  /\ ini' \in [whole : {TRUE}, settings : Settings] \cup {NoIni}
  /\ UNCHANGED <<bootPlace, bootType, firmType, bootenv, pressed, mcu, memoryVars,
                 optionVars, bootHistory>>

\* The user puts a later boot.firm in the place of the one that ran.
ReplacesBootFirm ==
  /\ bootPlace = "running" /\ mcu.state = "valid"
  /\ mcu' = [mcu EXCEPT !.state = "older"] /\ updated' = TRUE
  /\ UNCHANGED <<bootPlace, bootType, firmType, bootenv, pressed, ini, memoryVars,
                 optionVars, cardVars, lastBoot>>

\* The user deletes or spoils config.ini.
LosesIni ==
  /\ bootPlace = "running"
  /\ ini' = NoIni
  /\ UNCHANGED <<bootPlace, bootType, firmType, bootenv, pressed, mcu, memoryVars,
                 optionVars, cardVars, bootHistory>>

-----------------------------------------------------------------------------
(* The configuration *)

\* writeConfigMcu writes bootCfg from configData, into which readConfig has not
\* yet copied what it read: after an update as after invalid data it is zero.
ReadMcu == IF mcu.state = "valid" THEN mcu ELSE [state |-> "valid", bootCfg |-> ZeroConfig]

ReadsConfig ==
  /\ bootPlace = "start"
  /\ bootPlace' = "read"
  /\ mcu' = ReadMcu
  /\ LET whole == mcu.state # "invalid" /\ ini.whole
     IN  /\ configData' = IF whole THEN ini.settings ELSE DefaultSettings
         /\ needConfig' = IF whole THEN "modify" ELSE "create"
  /\ bootConfig' = ReadMcu.bootCfg /\ oldBootConfig' = ReadMcu.bootCfg
  /\ pressed' \in Presses
  /\ UNCHANGED <<bootType, firmType, bootenv, ini, optionVars, cardVars, bootHistory>>

MenuKeys == "SELECT" \in pressed /\ "L1" \notin pressed

\* configMenu, which ends with writeConfig(true).
ShowsConfigMenu ==
  /\ bootPlace = "options"
  /\ needConfig = "create" \/ MenuKeys
  /\ configData' \in Settings
  /\ ini' = [whole |-> TRUE, settings |-> configData']
  /\ needConfig' = "modify"
  /\ bootPlace' = "defaults" /\ pressed' \in Presses
  /\ UNCHANGED <<bootType, firmType, bootenv, mcu, bootConfig, oldBootConfig, optionVars,
                 cardVars, bootHistory>>

\* writeConfig(true) fails: the file may be cut short.
ConfigNotWritten ==
  /\ bootPlace = "options"
  /\ needConfig = "create" \/ MenuKeys
  /\ ini' \in {ini, NoIni}
  /\ UNCHANGED mcu
  /\ Off

\* A splash, or a payload that is not there, has main look at the buttons again.
NoConfigMenu ==
  /\ bootPlace = "options"
  /\ needConfig = "modify" /\ ~MenuKeys
  /\ bootPlace' = "defaults" /\ pressed' \in Presses
  /\ UNCHANGED <<bootType, firmType, bootenv, mcu, ini, memoryVars, optionVars,
                 cardVars, bootHistory>>

-----------------------------------------------------------------------------
(* The options *)

Chooses(place, nand, index, noForce) ==
  /\ bootPlace' = place
  /\ nandType' = nand /\ emunandIndex' = index /\ isNoForceFlagSet' = noForce
  /\ UNCHANGED <<bootType, pressed, mcu, ini, memoryVars, cardVars, bootHistory>>

\* configureHomebrewAutoboot, after a system that asks for nothing or for a title.
Autobooted(env, empty) ==
  IF configData.autoboot = 0 \/ env > 1 \/ (env = 1 /\ ~empty) THEN env
  ELSE IF configData.autoboot = 1 THEN 1 ELSE 3

\* A firmlaunch without a configuration turns the machine off.
FirmlaunchRefused ==
  /\ bootPlace = "read" /\ bootType = "FIRMLAUNCH" /\ needConfig = "create"
  /\ UNCHANGED <<mcu, ini>>
  /\ Off

FirmlaunchGoes ==
  /\ bootPlace = "read" /\ bootType = "FIRMLAUNCH" /\ needConfig = "modify"
  /\ Chooses("chosen", bootConfig.nand, bootConfig.emu, FALSE)
  /\ UNCHANGED <<firmType, bootenv>>

\* Back from AGB_FIRM: SysNAND, and the next boot is not forced.
ComesFromAgb ==
  /\ bootPlace = "read" /\ bootType = "B9S"
  /\ bootenv = 7 /\ needConfig = "modify"
  /\ Chooses("chosen", "sys", 0, bootConfig.nand # "sys")
  /\ UNCHANGED <<firmType, bootenv>>

\* hasValidTlncAutobootParams: loadDeliverArg clears blocks of the usual length.
ValidTlnc(length) == bootenv = 3 /\ length > 248

MayForce == bootPlace = "read" /\ bootType = "B9S" /\ bootenv \in {1, 3} /\ needConfig = "modify"

ForcesLastOptions ==
  /\ MayForce
  /\ \E length \in TlncLengths : ValidTlnc(length) \/ (pressed = {} /\ ~bootConfig.noForce)
  /\ \E empty \in BOOLEAN :
       bootenv' = IF bootenv = 1 THEN Autobooted(1, empty) ELSE bootenv
  /\ Chooses("forced", bootConfig.nand, bootConfig.emu, FALSE)
  /\ UNCHANGED firmType

AsksForOptions ==
  /\ bootPlace = "read" /\ bootType = "B9S"
  /\ \/ bootenv = 0 \/ needConfig = "create"
     \/ /\ MayForce
        /\ \E length \in TlncLengths : ~ValidTlnc(length)
        /\ pressed # {} \/ bootConfig.noForce
  /\ \E empty \in BOOLEAN :
       bootenv' = IF MayForce /\ bootenv = 1 THEN Autobooted(1, empty) ELSE bootenv
  /\ Chooses("options", "sys", 0, FALSE)
  /\ UNCHANGED firmType

EntersSafeMode ==
  /\ bootPlace = "defaults"
  /\ bootenv = 0 /\ pressed = SafeModeCombo
  /\ Chooses("chosen", "sys", 0, FALSE)
  /\ firmType' = "safe"
  /\ UNCHANGED bootenv

UsesSettings ==
  /\ bootPlace = "defaults"
  /\ ~(bootenv = 0 /\ pressed = SafeModeCombo)
  /\ IF isSdMode /\ configData.autobootEmu # ("L1" \in pressed)
     THEN Chooses("chosen", "emu", AskedIndex(pressed, configData.defaultEmu), FALSE)
     ELSE Chooses("chosen", "sys", 0, FALSE)
  /\ \E empty \in BOOLEAN : bootenv' = Autobooted(bootenv, empty)
  /\ UNCHANGED firmType

-----------------------------------------------------------------------------
(* The boot *)

\* locateEmuNand falls back to the first EmuNAND, then to SysNAND.
Located ==
  IF nandType = "sys" THEN [nand |-> "sys", emu |-> emunandIndex]
  ELSE IF emunandIndex \in emuNands THEN [nand |-> "emu", emu |-> emunandIndex]
  ELSE [nand |-> IF 0 \in emuNands THEN "emu" ELSE "sys", emu |-> 0]

Config == [nand |-> Located.nand, emu |-> Located.emu, noForce |-> isNoForceFlagSet]

\* mutant: the registers are written when another kind of NAND is booted.
WritesBootConfigOfNand ==
  /\ bootConfig' = Config
  /\ lastBoot' = Config /\ updated' = FALSE
  /\ mcu' = IF Config.nand # oldBootConfig.nand THEN [state |-> "valid", bootCfg |-> Config] ELSE mcu

\* writeConfig(false): the registers are written when they change.
WritesBootConfig ==
  /\ bootConfig' = Config
  /\ lastBoot' = Config /\ updated' = FALSE
  /\ mcu' = IF Config # oldBootConfig THEN [state |-> "valid", bootCfg |-> Config] ELSE mcu

Boots ==
  /\ bootPlace \in {"forced", "chosen"}
  /\ bootPlace' = "running"
  /\ nandType' = Located.nand /\ emunandIndex' = Located.emu
  /\ IF bootType = "FIRMLAUNCH" THEN UNCHANGED <<mcu, bootConfig, bootHistory>> ELSE WritesBootConfig
  /\ UNCHANGED <<bootType, firmType, bootenv, pressed, ini, configData, oldBootConfig, needConfig,
                 isNoForceFlagSet, cardVars>>

\* An EmuNAND of a card that cannot be written.
RefusesLockedCard ==
  /\ bootPlace \in {"forced", "chosen"} /\ Located.nand = "emu"
  /\ UNCHANGED <<mcu, ini>>
  /\ Off

-----------------------------------------------------------------------------

Arm9Init ==
  /\ bootPlace = "off" /\ bootType = "B9S" /\ firmType = "native" /\ bootenv = 0 /\ pressed = {}
  /\ mcu = [state |-> "invalid", bootCfg |-> ZeroConfig]
  /\ ini = NoIni
  /\ configData = DefaultSettings /\ needConfig = "modify"
  /\ bootConfig = ZeroConfig /\ oldBootConfig = ZeroConfig
  /\ nandType = "sys" /\ emunandIndex = 0 /\ isNoForceFlagSet = FALSE
  /\ emuNands = EmuIndices /\ isSdMode = TRUE
  /\ lastBoot = ZeroConfig /\ updated = FALSE

Arm9Next ==
  \/ PowersOn \/ Reboots \/ (\E firm \in {"native", "twl", "agb"} : Firmlaunches(firm))
  \/ LosesPower \/ ChangesCard \/ ReplacesBootFirm \/ LosesIni
  \/ ReadsConfig \/ ShowsConfigMenu \/ ConfigNotWritten \/ NoConfigMenu
  \/ FirmlaunchRefused \/ FirmlaunchGoes \/ ComesFromAgb
  \/ ForcesLastOptions \/ AsksForOptions \/ EntersSafeMode \/ UsesSettings
  \/ Boots \/ RefusesLockedCard

Arm9Spec == Arm9Init /\ [][Arm9Next]_arm9Vars

-----------------------------------------------------------------------------
(* Properties *)

\* The shape of the state.
Arm9TypeOK ==
  /\ bootPlace \in {"off", "start", "read", "options", "defaults", "forced", "chosen", "running"}
  /\ bootType \in {"B9S", "FIRMLAUNCH"} /\ firmType \in {"native", "twl", "agb", "safe"}
  /\ bootenv \in {0, 1, 3, 7} /\ pressed \in Presses
  /\ mcu \in [state : {"valid", "older", "invalid"}, bootCfg : BootConfigs]
  /\ ini \in [whole : BOOLEAN, settings : Settings]
  /\ configData \in Settings /\ needConfig \in {"create", "modify"}
  /\ {bootConfig, oldBootConfig, lastBoot} \subseteq BootConfigs
  /\ nandType \in {"sys", "emu"} /\ emunandIndex \in EmuIndices
  /\ isNoForceFlagSet \in BOOLEAN
  /\ emuNands \subseteq EmuIndices /\ isSdMode \in BOOLEAN /\ updated \in BOOLEAN

\* main.c, config.c: the firmware of a firmlaunch runs on the NAND of the system
\* that launched it, whatever boots, losses of power and cards came before; of an
\* EmuNAND that exists.  (Not so after boot.firm was replaced: ReadMcu.)
FirmlaunchKeepsNand ==
  bootPlace = "running" =>
    /\ nandType = "emu" => emunandIndex \in emuNands
    /\ ~updated => nandType = lastBoot.nand /\ emunandIndex = lastBoot.emu

\* main.c:245: "Force the last used boot options": the options that are forced
\* are those of the last boot.
ForcesLastUsed ==
  bootPlace = "forced" => nandType = lastBoot.nand /\ emunandIndex = lastBoot.emu
=============================================================================
