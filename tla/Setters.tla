------------------------------ MODULE Setters ------------------------------
(***************************************************************************)
(* The setters of api.py and baichuan.py, one row per method: which        *)
(* document (the part of the camera's configuration that one Get/Set pair  *)
(* carries) it changes, what it takes, and how it makes the body it sends. *)
(* Settings.tla runs the rows.  A method that loops over the channels is   *)
(* its row once per channel, each channel having its own document.         *)
(***************************************************************************)
EXTENDS SequencesExt

(***************************************************************************)
(* A row: doc, the document; args, the fields a caller can ask for, in the *)
(* order the method writes them; read, how the method reads the document   *)
(* first ("fresh" each time, "lazy" only when nothing is cached, "none");  *)
(* body, a dict of its own with the asked fields only ("own") or the       *)
(* cached dict itself, changed in place and sent whole ("cache"); checked, *)
(* the arguments that can be refused with InvalidParameterError; fill, the *)
(* fields an own body takes from the cache when they were not asked; get,  *)
(* the fields whose change makes the method read the document again;       *)
(* direct, the fields that make it send by Baichuan instead of HTTP;       *)
(* always, the fields it sets whatever was asked; found, the fields for    *)
(* whose sake a method that sends by Baichuan reads again only if it has   *)
(* found their element.                                                    *)
(***************************************************************************)
Row(doc, args) ==
    [doc |-> doc, args |-> args, read |-> "none", body |-> "own",
     checked |-> {}, fill |-> {}, get |-> ToSet(args), direct |-> {}, always |-> {}, found |-> {}]

ReadFirst(doc, args)  == [Row(doc, args) EXCEPT !.read = "fresh", !.body = "cache"]
FromCache(doc, args)  == [Row(doc, args) EXCEPT !.body = "cache"]
Direct(doc, args)     == [Row(doc, args) EXCEPT !.direct = ToSet(args)]
Checked(row, fields)  == [row EXCEPT !.checked = fields]
Filling(row, fields)  == [row EXCEPT !.fill = fields]
Showing(row, fields)  == [row EXCEPT !.get = fields]
IfMissing(row)        == [row EXCEPT !.read = "lazy"]

-----------------------------------------------------------------------------
(* Setters of Host (api.py).                                               *)

set_net_port == IfMissing(FromCache("NetPort", <<"onvifEnable", "rtmpEnable", "rtspEnable">>))
set_time == Checked(ReadFirst("Time", <<"timeFmt", "hourFmt", "timeZone">>), {"timeFmt", "timeZone"})
set_ntp == Checked(IfMissing(FromCache("Ntp", <<"enable", "server", "port", "interval">>)),
                   {"port", "interval"})
sync_ntp == IfMissing(FromCache("Ntp", <<"interval">>))
set_state_light == Row("StateLight", <<"enable">>)
set_focus == Checked(Row("ZoomFocus", <<"focus">>), {"focus"})
set_autofocus == Row("AutoFocus", <<"disable">>)
set_zoom == Checked(Row("ZoomFocus", <<"zoom">>), {"zoom"})
\* The read that follows Set3DPos is of the range of the coordinates, not of the position.
set_ptz_3d_zoom == Checked(Showing(Row("Ptz", <<"3DPos">>), {}), {"3DPos"})
set_ptz_command == Checked(Showing(Row("Ptz", <<"op">>), {}), {"op"})
set_ptz_guard == Checked(Row("PtzGuard", <<"pos", "benable", "timeout">>), {"pos", "timeout"})
ptz_callibrate == Showing(Row("Ptz", <<"check">>), {})
set_auto_tracking == Checked(Row("AiCfg", <<"bSmartTrack", "aiDisappearBackTime", "aiStopBackTime", "aiTrack">>),
                             {"aiTrack"})
set_auto_track_limit == Checked(Row("PtzTraceSection", <<"LimitLeft", "LimitRight">>),
                                {"LimitLeft", "LimitRight"})
set_osd == Checked(ReadFirst("Osd", <<"namePos", "datePos", "watermark">>), {"namePos", "datePos"})
set_push == Row("Push", <<"enable">>)
set_ftp == Row("Ftp", <<"enable">>)
set_email == Row("Email", <<"enable">>)
set_recording == ReadFirst("Rec", <<"scheduleEnable">>)
set_recording_packing_time == Checked(Row("RecHost", <<"packTime">>), {"packTime"})
set_post_recording_time == Checked(FromCache("Rec", <<"postRec">>), {"postRec"})
set_manual_record == Row("ManualRec", <<"enable">>)
set_buzzer == Row("Buzzer", <<"enable">>)
set_privacy_mask == Row("Mask", <<"enable">>)
set_audio == ReadFirst("Enc", <<"audio">>)
set_bit_rate == ReadFirst("Enc", <<"bitRate">>)
set_frame_rate == ReadFirst("Enc", <<"frameRate">>)
\* The HTTP read of set_encoding only tells that there is a document; the setter sends by Baichuan.
set_encoding == [Checked(Showing(Direct("Enc", <<"encoding">>), {}), {"encoding"}) EXCEPT !.read = "fresh"]
set_ir_lights == Row("Led", <<"irState">>)
set_status_led == Checked(Row("Led", <<"state", "eDoorbellLightState">>), {"state", "eDoorbellLightState"})
set_whiteled == Checked(Row("WhiteLed", <<"state", "bright", "mode">>), {"bright", "mode"})
\* One end of the schedule is asked, the other is taken from the cache; the mode is always 3.
set_spotlight_lighting_schedule ==
    [Filling(Checked(Row("WhiteLed", <<"Start", "End", "mode">>), {"Start", "End"}), {"Start", "End"})
       EXCEPT !.always = {"mode"}]
set_volume == Checked(Direct("AudioCfg", <<"volume", "talkAndReplyVolume", "visitorVolume", "visitorLoudspeaker">>),
                      {"volume", "talkAndReplyVolume", "visitorVolume", "visitorLoudspeaker"})
set_hub_audio == Checked(Row("DeviceAudioCfg", <<"alarmVolume", "cuesVolume", "alarmRingToneId", "ringToneId">>),
                         {"alarmVolume", "cuesVolume", "alarmRingToneId", "ringToneId"})
play_quick_reply == Checked(Showing(Row("QuickReplyPlay", <<"id">>), {}), {"id"})
\* Switching the reply on sends the cached file along.
set_quick_reply == Filling(Checked(Row("AutoReply", <<"enable", "fileId", "timeout">>), {"fileId", "timeout"}),
                           {"fileId"})
set_pre_alarm == Direct("AudioCfg", <<"preAlarm">>)
set_audio_alarm == Row("AudioAlarm", <<"enable">>)
set_daynight == Checked(ReadFirst("Isp", <<"dayNight">>), {"dayNight"})
set_binning_mode == Checked(ReadFirst("Isp", <<"binningMode">>), {"binningMode"})
set_HDR == Checked(ReadFirst("Isp", <<"hdr">>), {"hdr"})
set_exposure == Checked(ReadFirst("Isp", <<"exposure">>), {"exposure"})
set_daynight_threshold == Checked(ReadFirst("Isp", <<"dayNightThreshold">>), {"dayNightThreshold"})
set_backlight == Checked(ReadFirst("Isp", <<"backLight">>), {"backLight"})
set_anti_flicker == Checked(ReadFirst("Isp", <<"antiFlicker">>), {"antiFlicker"})
set_motion_detection == FromCache("Alarm", <<"enable">>)
\* A change of the interval goes by Baichuan.
set_pir == [Checked(Row("Pir", <<"enable", "reduceAlarm", "sensitive", "interval">>), {"sensitive"})
              EXCEPT !.direct = {"interval"}, !.found = {"interval"}]
set_md_sensitivity == Checked(Row("Alarm", <<"sens">>), {"sens"})
set_ai_sensitivity == Checked(Row("AiAlarm", <<"sensitivity">>), {"sensitivity"})
set_ai_delay == Checked(Row("AiAlarm", <<"stay_time">>), {"stay_time"})
set_image == Checked(Row("Image", <<"bright", "contrast", "saturation", "hue", "sharpen">>),
                     {"bright", "contrast", "saturation", "hue", "sharpen"})
\* Chime.set_option and Chime.set_tone.
set_option == IfMissing(Filling(Checked(Row("DingDongOpt", <<"volLevel", "ledState">>), {"volLevel"}),
                                {"volLevel", "ledState"}))
set_tone == Filling(Checked(Direct("DingDongCfg", <<"switch", "musicId">>), {"musicId"}), {"musicId"})

-----------------------------------------------------------------------------
(* Setters of Baichuan (baichuan.py) that a caller uses directly.          *)

set_floodlight ==
    LET shown == {"color_temp", "event_mode", "event_brightness", "event_on_time", "event_flash_time"}
        all   == <<"state", "bright", "mode", "color_temp", "event_mode", "event_brightness", "event_on_time",
                   "event_flash_time">>
    IN  [Checked(Showing(Direct("WhiteLed", all), shown), {"color_temp"}) EXCEPT !.found = shown]
set_ir_brightness == Direct("Led", <<"irBrightness">>)
set_cry_detection == Direct("AiCfg", <<"cry">>)
SetAudioNoise == Direct("AudioNoise", <<"level">>)
set_yolo_settings == Direct("AiAlarm", <<"sensitivity", "stay_time">>)
set_work_mode_battery == Checked(Direct("BatteryMode", <<"mode">>), {"mode"})
set_work_mode_powered == Checked(Direct("AdapterWorkMode", <<"mode">>), {"mode"})
set_pre_recording == Direct("PreRecord", <<"enabled", "preTime", "fps", "batteryStop">>)
set_privacy_mode == Direct("PrivacyMode", <<"enable">>)
set_ding_dong_silent == Direct("DingDongSilent", <<"time">>)
set_ding_dong_ctrl == Checked(Direct("DingDongCtrl", <<"type", "enabled">>), {"type"})
set_tamper == Direct("Tamper", <<"enable">>)
set_scene == Checked(Direct("Scene", <<"curSceneId">>), {"curSceneId"})
set_smart_ai == Showing(Direct("SmartAi", <<"sensitivity", "stayTime">>), {})
set_rule_enabled == Direct("Rule", <<"enable">>)

HostSetters ==
    [set_net_port |-> set_net_port, set_time |-> set_time, set_ntp |-> set_ntp, sync_ntp |-> sync_ntp,
     set_state_light |-> set_state_light, set_focus |-> set_focus, set_autofocus |-> set_autofocus,
     set_zoom |-> set_zoom, set_ptz_3d_zoom |-> set_ptz_3d_zoom, set_ptz_command |-> set_ptz_command,
     set_ptz_guard |-> set_ptz_guard, ptz_callibrate |-> ptz_callibrate,
     set_auto_tracking |-> set_auto_tracking, set_auto_track_limit |-> set_auto_track_limit,
     set_osd |-> set_osd, set_push |-> set_push, set_ftp |-> set_ftp, set_email |-> set_email,
     set_recording |-> set_recording, set_recording_packing_time |-> set_recording_packing_time,
     set_post_recording_time |-> set_post_recording_time, set_manual_record |-> set_manual_record,
     set_buzzer |-> set_buzzer, set_privacy_mask |-> set_privacy_mask, set_audio |-> set_audio,
     set_bit_rate |-> set_bit_rate, set_frame_rate |-> set_frame_rate, set_encoding |-> set_encoding,
     set_ir_lights |-> set_ir_lights, set_status_led |-> set_status_led, set_whiteled |-> set_whiteled,
     set_spotlight_lighting_schedule |-> set_spotlight_lighting_schedule, set_volume |-> set_volume,
     set_hub_audio |-> set_hub_audio, play_quick_reply |-> play_quick_reply,
     set_quick_reply |-> set_quick_reply, set_pre_alarm |-> set_pre_alarm,
     set_audio_alarm |-> set_audio_alarm, set_daynight |-> set_daynight,
     set_binning_mode |-> set_binning_mode, set_HDR |-> set_HDR, set_exposure |-> set_exposure,
     set_daynight_threshold |-> set_daynight_threshold, set_backlight |-> set_backlight,
     set_anti_flicker |-> set_anti_flicker, set_motion_detection |-> set_motion_detection,
     set_pir |-> set_pir, set_md_sensitivity |-> set_md_sensitivity,
     set_ai_sensitivity |-> set_ai_sensitivity, set_ai_delay |-> set_ai_delay, set_image |-> set_image,
     set_option |-> set_option, set_tone |-> set_tone]

BaichuanSetters ==
    [set_floodlight |-> set_floodlight, set_ir_brightness |-> set_ir_brightness,
     set_cry_detection |-> set_cry_detection, SetAudioNoise |-> SetAudioNoise,
     set_yolo_settings |-> set_yolo_settings, set_work_mode_battery |-> set_work_mode_battery,
     set_work_mode_powered |-> set_work_mode_powered, set_pre_recording |-> set_pre_recording,
     set_privacy_mode |-> set_privacy_mode, set_ding_dong_silent |-> set_ding_dong_silent,
     set_ding_dong_ctrl |-> set_ding_dong_ctrl, set_tamper |-> set_tamper, set_scene |-> set_scene,
     set_smart_ai |-> set_smart_ai, set_rule_enabled |-> set_rule_enabled]

Setter == HostSetters @@ BaichuanSetters
Documents == {Setter[s].doc : s \in DOMAIN Setter}
SettersOf == [d \in Documents |-> {s \in DOMAIN Setter : Setter[s].doc = d}]

-----------------------------------------------------------------------------
(***************************************************************************)
(* How Baichuan writes a document, for its own setters and as the          *)
(* alternative of an HTTP Set command: reads, whether it reads the whole   *)
(* XML, changes it and sends it back (else it sends the fields alone);     *)
(* first, the fields a command of their own carries before that, last,     *)
(* those that one carries afterwards; handles, the fields it knows; skips, *)
(* those it passes over without a word when the XML that it has read has   *)
(* no such element; early, whether it takes the values out of the body     *)
(* before it reads; parses, whether that read also lands in the cache;     *)
(* checks, whether it is the handler, after its read, that refuses a value *)
(* as invalid; again, whether it reads the document once more for an HTTP  *)
(* caller.                                                                 *)
(***************************************************************************)
Sends(fields) == [reads |-> FALSE, first |-> {}, last |-> {}, handles |-> fields, skips |-> {}, early |-> TRUE,
                  parses |-> FALSE, checks |-> FALSE, again |-> FALSE]
ReadsAndSends(fields) == [Sends(fields) EXCEPT !.reads = TRUE]
Skipping(fields) == [ReadsAndSends(fields) EXCEPT !.skips = fields]

\* One message for each port, taken as one.
bcSetNetPort == Sends({"onvifEnable", "rtmpEnable", "rtspEnable"})
bcStartZoomFocus == Sends({"focus", "zoom"})
bcSetAutoFocus == Sends({"disable"})
bcPtz == Sends({"op", "3DPos", "check"})
bcSetPtzGuard == [ReadsAndSends({"pos", "benable", "timeout"}) EXCEPT !.parses = TRUE]
bcSetAiCfg == Skipping({"bSmartTrack", "aiTrack", "aiDisappearBackTime", "aiStopBackTime", "cry"})
bcSetPtzTraceSection == Skipping({"LimitLeft", "LimitRight"})
bcSetPush == Skipping({"enable"})
bcSetFtp == Skipping({"enable"})
bcSetEmail == Skipping({"enable"})
\* What the post recording time means for AI recordings (656) is sent after it, taken as one with it.
bcSetRecV20 == [ReadsAndSends({"scheduleEnable", "packTime", "postRec"})
                  EXCEPT !.first = {"scheduleEnable"}, !.skips = {"packTime", "postRec"}]
bcSetMask == Skipping({"enable"})
\* A stream that is missing as a whole raises when its encoding is asked; the encoding is a field here.
bcSetEnc == Skipping({"audio", "bitRate", "frameRate", "encoding"})
bcSetStatusLed == Skipping({"irState", "state", "eDoorbellLightState", "irBrightness"})
\* The schedule of SetWhiteLed is not among what set_floodlight knows.
bcSetFloodlight ==
    LET inTask == {"bright", "mode", "color_temp", "event_mode", "event_brightness", "event_on_time",
                   "event_flash_time"}
    IN  [Skipping(inTask) EXCEPT !.handles = {"state"} \cup inTask, !.first = {"state"}, !.checks = TRUE]
bcSetAudioCfg == Skipping({"volume", "talkAndReplyVolume", "visitorVolume", "visitorLoudspeaker", "preAlarm"})
bcQuickReplyPlay == Sends({"id"})
bcSetAutoReply == [Skipping({"enable", "fileId", "timeout"}) EXCEPT !.again = TRUE]
bcSetAudioAlarm == Skipping({"enable"})
\* SetIsp does not know backLight; a camera whose document has no antiFlicker is left out (see README).
\* The threshold is read and written by two commands of its own (296, 297), taken as one.
bcSetIsp == [Skipping({"dayNight", "binningMode", "hdr", "exposure", "antiFlicker", "dayNightThreshold"})
               EXCEPT !.early = FALSE, !.last = {"dayNightThreshold"}]
\* SetMdAlarm does not know the enable of SetAlarm; without the element it raises.
bcSetMdAlarm == ReadsAndSends({"sens"})
bcSetPirInfo == Skipping({"enable", "reduceAlarm", "sensitive", "interval"})
bcSetAiAlarm == Skipping({"sensitivity", "stay_time"})
bcSetImage == Skipping({"bright", "contrast", "saturation", "hue", "sharpen"})
bcDingDongOpt == Sends({"volLevel", "ledState"})
bcSetDingDongCfg == Sends({"switch", "musicId"})
bcSetAudioNoise == Skipping({"level"})
bcBatteryMode == [Skipping({"mode"}) EXCEPT !.checks = TRUE]
bcAdapterWorkMode == [Skipping({"mode"}) EXCEPT !.checks = TRUE]
bcPreRecord == [ReadsAndSends({"enabled", "preTime", "fps", "batteryStop"}) EXCEPT !.parses = TRUE]
bcPrivacyMode == Sends({"enable"})
bcDingDongSilent == Sends({"time"})
bcDingDongCtrl == [ReadsAndSends({"type", "enabled"}) EXCEPT !.parses = TRUE, !.checks = TRUE]
bcTamper == Sends({"enable"})
bcScene == Sends({"curSceneId"})
bcSmartAi == Skipping({"sensitivity", "stayTime"})
bcRule == Skipping({"enable"})

cmd_funcs ==
    [NetPort |-> bcSetNetPort, ZoomFocus |-> bcStartZoomFocus, AutoFocus |-> bcSetAutoFocus, Ptz |-> bcPtz,
     PtzGuard |-> bcSetPtzGuard, AiCfg |-> bcSetAiCfg, PtzTraceSection |-> bcSetPtzTraceSection,
     Push |-> bcSetPush, Ftp |-> bcSetFtp, Email |-> bcSetEmail, Rec |-> bcSetRecV20, Mask |-> bcSetMask,
     Enc |-> bcSetEnc, Led |-> bcSetStatusLed, WhiteLed |-> bcSetFloodlight, AudioCfg |-> bcSetAudioCfg,
     QuickReplyPlay |-> bcQuickReplyPlay, AutoReply |-> bcSetAutoReply, AudioAlarm |-> bcSetAudioAlarm,
     Isp |-> bcSetIsp, Alarm |-> bcSetMdAlarm, Pir |-> bcSetPirInfo, AiAlarm |-> bcSetAiAlarm,
     Image |-> bcSetImage, DingDongOpt |-> bcDingDongOpt, DingDongCfg |-> bcSetDingDongCfg,
     AudioNoise |-> bcSetAudioNoise, BatteryMode |-> bcBatteryMode, AdapterWorkMode |-> bcAdapterWorkMode,
     PreRecord |-> bcPreRecord, PrivacyMode |-> bcPrivacyMode, DingDongSilent |-> bcDingDongSilent,
     DingDongCtrl |-> bcDingDongCtrl, Tamper |-> bcTamper, Scene |-> bcScene, SmartAi |-> bcSmartAi,
     Rule |-> bcRule]

\* Documents whose HTTP answer is merged into the cached dict (setdefault, update); the others replace it.
UpdatedInPlace == {"Rec", "WhiteLed", "AudioCfg", "ZoomFocus", "DingDongOpt", "DingDongCfg"}

\* Cached documents that nothing read over Baichuan is mapped into: get_ports and GetOsd fill other
\* attributes (Elsewhere), the others have no getter there.
Elsewhere == {"NetPort", "Osd"}
HttpOnly == Elsewhere \cup {"Time", "Ntp", "StateLight", "RecHost", "Buzzer", "DeviceAudioCfg", "ManualRec"}
=============================================================================
