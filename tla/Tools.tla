--------------------------------- MODULE Tools ---------------------------------
(***************************************************************************)
(* The tools of the server (the modules of tools/), by the function that   *)
(* registers them; which have a resolver that asks a human; and the        *)
(* mutations of the Unraid API each sends, by its action if it has some.   *)
(***************************************************************************)
EXTENDS FiniteSets

SystemReads == {"get_system_info", "get_system_metrics", "get_services",
                "get_system_time", "get_hardware_inventory"}

ArrayReads == {"get_array_status", "get_parity_status", "get_parity_history",
               "list_disks", "get_disk"}
ArrayMutations == {"start_array", "stop_array", "start_parity_check", "parity_check_control"}
ArrayDangerous == {"mount_array_disk", "unmount_array_disk", "clear_disk_statistics",
                   "add_disk_to_array"}

DockerReads == {"list_docker_containers", "get_docker_container",
                "get_docker_port_conflicts", "list_docker_networks",
                "get_docker_container_logs", "get_docker_container_stats",
                "check_docker_updates"}
DockerMutations == {"docker_container_power", "stop_docker_container",
                    "restart_docker_container", "update_docker_container",
                    "update_docker_containers", "refresh_docker_digests",
                    "set_docker_autostart"}
DockerDangerous == {"remove_docker_container", "update_all_docker_containers"}

VmReads == {"list_vms"}
VmMutations == {"vm_power", "stop_vm", "reboot_vm", "force_stop_vm", "reset_vm"}

ShareReads == {"list_shares"}

NotificationReads == {"get_notifications_overview", "list_notifications",
                      "list_warnings_and_alerts"}
NotificationMutations == {"notification_archive", "archive_all_notifications",
                          "delete_notification", "notification_archive_bulk",
                          "unarchive_all_notifications", "delete_archived_notifications",
                          "create_notification"}

MiscReads == {"get_ups_status", "list_network_interfaces", "whoami", "get_connect_status",
              "list_plugins", "get_health_summary", "list_log_files", "read_log_file"}
Raw == {"run_graphql_query"}

Reads == SystemReads \cup ArrayReads \cup DockerReads \cup VmReads \cup ShareReads
           \cup NotificationReads \cup MiscReads
Mutations == ArrayMutations \cup DockerMutations \cup VmMutations \cup NotificationMutations
Dangerous == ArrayDangerous \cup DockerDangerous
Catalog == Reads \cup Mutations \cup Dangerous \cup Raw

-----------------------------------------------------------------------------
(* Resolve(_confirm_...): by module.                                        *)
ArrayAsks == {"stop_array", "mount_array_disk", "unmount_array_disk",
              "clear_disk_statistics", "add_disk_to_array"}
DockerAsks == {"stop_docker_container", "restart_docker_container",
               "update_docker_container", "update_docker_containers",
               "remove_docker_container", "update_all_docker_containers"}
VmAsks == {"stop_vm", "reboot_vm", "force_stop_vm", "reset_vm"}
NotificationAsks == {"archive_all_notifications", "delete_notification",
                     "delete_archived_notifications"}

Asks == ArrayAsks \cup DockerAsks \cup VmAsks \cup NotificationAsks

-----------------------------------------------------------------------------
(* The do_... functions: <<tool, action, mutation>>.                        *)

ArraySends ==
  {<<"start_array", "none", "array.setState(START)">>,
   <<"stop_array", "none", "array.setState(STOP)">>,
   <<"start_parity_check", "none", "parityCheck.start">>,
   <<"parity_check_control", "pause", "parityCheck.pause">>,
   <<"parity_check_control", "resume", "parityCheck.resume">>,
   <<"parity_check_control", "cancel", "parityCheck.cancel">>}
ArrayDangerousSends ==
  {<<"mount_array_disk", "none", "array.mountArrayDisk">>,
   <<"unmount_array_disk", "none", "array.unmountArrayDisk">>,
   <<"clear_disk_statistics", "none", "array.clearArrayDiskStatistics">>,
   <<"add_disk_to_array", "none", "array.addDiskToArray">>}

(* ContainerOps has what a restart does where docker.restart is missing.    *)
ContainerSends ==
  {<<"docker_container_power", "start", "docker.start">>,
   <<"docker_container_power", "pause", "docker.pause">>,
   <<"docker_container_power", "unpause", "docker.unpause">>,
   <<"stop_docker_container", "none", "docker.stop">>,
   <<"restart_docker_container", "none", "docker.restart">>,
   <<"update_docker_container", "none", "docker.updateContainer">>}
UpdateSends ==
  {<<"update_docker_containers", "none", "docker.updateContainers">>,
   <<"refresh_docker_digests", "none", "refreshDockerDigests">>,
   <<"set_docker_autostart", "none", "docker.updateAutostartConfiguration">>}
DockerDangerousSends ==
  {<<"remove_docker_container", "none", "docker.removeContainer">>,
   <<"update_all_docker_containers", "none", "docker.updateAllContainers">>}

VmSends ==
  {<<"vm_power", "start", "vm.start">>, <<"vm_power", "pause", "vm.pause">>,
   <<"vm_power", "resume", "vm.resume">>,
   <<"stop_vm", "none", "vm.stop">>, <<"reboot_vm", "none", "vm.reboot">>,
   <<"force_stop_vm", "none", "vm.forceStop">>, <<"reset_vm", "none", "vm.reset">>}

NotificationSends ==
  {<<"notification_archive", "archive", "archiveNotification">>,
   <<"notification_archive", "unarchive", "unreadNotification">>,
   <<"notification_archive_bulk", "archive", "archiveNotifications">>,
   <<"notification_archive_bulk", "unarchive", "unarchiveNotifications">>,
   <<"archive_all_notifications", "none", "archiveAll">>,
   <<"unarchive_all_notifications", "none", "unarchiveAll">>,
   <<"delete_notification", "none", "deleteNotification">>,
   <<"delete_archived_notifications", "none", "deleteArchivedNotifications">>,
   <<"create_notification", "none", "createNotification">>}

Sends == ArraySends \cup ArrayDangerousSends \cup ContainerSends \cup UpdateSends
           \cup DockerDangerousSends \cup VmSends \cup NotificationSends

(* require_action: the actions of a tool; "none" if it has no choice.       *)
Actions(tool) ==
  IF tool \in Reads \cup Raw THEN {"none"} ELSE {s[2] : s \in {t \in Sends : t[1] = tool}}
Mutation(tool, action) ==
  (CHOOSE s \in Sends : s[1] = tool /\ s[2] = action)[3]
=============================================================================
